---- MODULE Spec2Model ----
(***************************************************************************)
(* Group Order Splitter: the cost-distribution calculator of the content   *)
(* script (calculateDistribution) and the places of the extension that     *)
(* derive the per-person budget from the dailyBudget setting.              *)
(*                                                                         *)
(* Arithmetic.  Money is held in exact fixed point.  Amounts read from the *)
(* page and from the settings are whole cents.  Every value the calculator *)
(* computes before rounding is a whole number of sub-cent units, Scale of  *)
(* them to the cent, where Scale is a common multiple of every participant *)
(* count, so that the division by the participant count is exact.  The two *)
(* quotients of the redistribution pass are kept as fractions.  toFixed(2) *)
(* rounds to the nearest cent; a value that lies exactly between two cents *)
(* in decimal is stored as a double on one side or the other, so the       *)
(* direction of such a tie is an input of the call (tie).                  *)
(***************************************************************************)
EXTENDS Integers, Sequences, FiniteSets, TLC

(***************************************************************************)
(* Bounds of the model.                                                    *)
(***************************************************************************)
MaxParticipants == 3

(***************************************************************************)
(* JavaScript values that a setting can hold.                              *)
(***************************************************************************)
Undefined == [t |-> "undefined", v |-> 0]
Null == [t |-> "null", v |-> 0]
NaN == [t |-> "NaN", v |-> 0]
Infinity == [t |-> "Infinity", v |-> 0]
Num(c) == [t |-> "number", v |-> c]

(* DEFAULT_SETTINGS.dailyBudget and the literal 14 of the content script, in cents *)
DefaultBudget == 1400

(***************************************************************************)
(* Characters, names and String.prototype functions.                       *)
(***************************************************************************)
UpperCase == <<"A","B","C","D","E","F","G","H","I","J","K","L","M",
               "N","O","P","Q","R","S","T","U","V","W","X","Y","Z">>
LowerCase == <<"a","b","c","d","e","f","g","h","i","j","k","l","m",
               "n","o","p","q","r","s","t","u","v","w","x","y","z">>

toLowerCase(s) ==
  [i \in 1..Len(s) |->
     IF \E k \in 1..Len(UpperCase) : UpperCase[k] = s[i]
     THEN LowerCase[CHOOSE k \in 1..Len(UpperCase) : UpperCase[k] = s[i]]
     ELSE s[i]]

includes(s, pattern) ==
  \E i \in 1..(Len(s) - Len(pattern) + 1) :
     SubSeq(s, i, i + Len(pattern) - 1) = pattern

(***************************************************************************)
(* Exact arithmetic.                                                       *)
(***************************************************************************)
Min(a, b) == IF a <= b THEN a ELSE b
Max(a, b) == IF a >= b THEN a ELSE b
Abs(a) == IF a >= 0 THEN a ELSE 0 - a

RECURSIVE Gcd(_, _)
Gcd(a, b) == IF b = 0 THEN a ELSE Gcd(b, a % b)

RECURSIVE LcmUpTo(_)
LcmUpTo(n) == IF n <= 1 THEN 1 ELSE (n * LcmUpTo(n - 1)) \div Gcd(n, LcmUpTo(n - 1))

(* sub-cent units per cent: every participant count up to the bound divides it *)
Scale == LcmUpTo(MaxParticipants)

RECURSIVE SumSeq(_)
SumSeq(s) == IF s = <<>> THEN 0 ELSE Head(s) + SumSeq(Tail(s))

(* a / count on doubles, a in sub-cent units: 0/0 is NaN and a/0 is an       *)
(* infinity of the sign of a                                                *)
dividedByCount(a, count) ==
  IF count # 0 THEN Num(a \div count)
  ELSE IF a = 0 THEN NaN
  ELSE IF a > 0 THEN Infinity
  ELSE [t |-> "-Infinity", v |-> 0]

Ties == {"up", "down"}

(* Number.prototype.toFixed(2) followed by parseFloat: the value num/den    *)
(* sub-cent units (den > 0), rounded to whole cents; the magnitude is       *)
(* rounded and the sign put back, and an exact tie goes the way of tie.     *)
toFixed2(num, den, tie) ==
  LET d == Scale * den
      q == Abs(num) \div d
      r == Abs(num) % d
      c == IF 2 * r > d \/ (2 * r = d /\ tie = "up") THEN q + 1 ELSE q
  IN  IF num >= 0 THEN c ELSE 0 - c

(***************************************************************************)
(* The Distribution Calculator (content script).                           *)
(*                                                                         *)
(* OrderData: people is the sequence of the entries of the people object   *)
(* in the order Object.keys enumerates them (insertion order; names are    *)
(* not integer-like), each [name, amount] with amount in cents; delivery,  *)
(* service and discount in cents.  A DistributionResult keeps the figures  *)
(* the code rounds in cents and the figures it returns unrounded           *)
(* (breakdown) in sub-cent units.                                          *)
(***************************************************************************)
orderCreatorPatterns ==
  << <<"y","o","u">>, <<"y","u">>, <<"m","e">>, <<"m","y","s","e","l","f">> >>

(* a match that compares the name as written, without toLowerCase *)
matchesCreatorPattern_caseSensitive(name) ==
  \E k \in 1..Len(orderCreatorPatterns) : includes(name, orderCreatorPatterns[k])

(* some(pattern => name.toLowerCase().includes(pattern)) *)
matchesCreatorPattern(name) ==
  \E k \in 1..Len(orderCreatorPatterns) :
     includes(toLowerCase(name), orderCreatorPatterns[k])

(* the loop that identifies the order creator: <<>> is null *)
findOrderCreator(participantNames) ==
  IF \E i \in 1..Len(participantNames) : matchesCreatorPattern(participantNames[i])
  THEN LET first == CHOOSE i \in 1..Len(participantNames) :
                      /\ matchesCreatorPattern(participantNames[i])
                      /\ \A j \in 1..(i - 1) : ~matchesCreatorPattern(participantNames[j])
       IN  <<participantNames[first]>>
  ELSE <<>>

(* the budget taken with ||, which also replaces 0 *)
budgetOf_falsy(settings) ==
  IF settings.dailyBudget.t = "number" /\ settings.dailyBudget.v # 0
  THEN settings.dailyBudget.v
  ELSE DefaultBudget

(* const budget = (dailyBudget !== undefined && dailyBudget !== null) ? dailyBudget : 14 *)
budgetOf(settings) ==
  IF settings.dailyBudget # Undefined /\ settings.dailyBudget # Null
  THEN settings.dailyBudget.v
  ELSE DefaultBudget

(* Step 1 with the shortfall taken from the individual order alone *)
step1_overIgnoresShared(individualOrder, sharedCostsPerPerson, budget) ==
  LET totalCost == individualOrder + sharedCostsPerPerson
  IN  [individualOrder |-> individualOrder,
       sharedCosts |-> sharedCostsPerPerson,
       totalCost |-> totalCost,
       budgetUsage |-> Min(totalCost, budget),
       extraBudget |-> Max(0, budget - totalCost),
       overBudget |-> Max(0, individualOrder - budget)]

(* Step 1 for one participant: the unrounded figures, in sub-cent units *)
step1(individualOrder, sharedCostsPerPerson, budget) ==
  LET totalCost == individualOrder + sharedCostsPerPerson
  IN  [individualOrder |-> individualOrder,
       sharedCosts |-> sharedCostsPerPerson,
       totalCost |-> totalCost,
       budgetUsage |-> Min(totalCost, budget),
       extraBudget |-> Max(0, budget - totalCost),
       overBudget |-> Max(0, totalCost - budget)]

(* participantDetails[name]: the Step 1 figures as stored, each through toFixed(2) *)
participantDetail(name, raw, orderCreator, tie) ==
  [name |-> name,
   individualOrder |-> toFixed2(raw.individualOrder, 1, tie),
   sharedCosts |-> toFixed2(raw.sharedCosts, 1, tie),
   totalCost |-> toFixed2(raw.totalCost, 1, tie),
   budgetUsage |-> toFixed2(raw.budgetUsage, 1, tie),
   extraBudget |-> toFixed2(raw.extraBudget, 1, tie),
   overBudget |-> toFixed2(raw.overBudget, 1, tie),
   isOrderCreator |-> (orderCreator = <<name>>)]

(* Step 2 without the Math.min and Math.max clamps *)
finalPaymentOf_unclamped(details, totalExtraBudget, totalOverBudget, tie) ==
  LET over == details.overBudget * Scale
      den == IF totalOverBudget > 0 THEN totalOverBudget ELSE 1
      share == IF totalOverBudget > 0 THEN totalExtraBudget * over ELSE 0
      paid == over * den - share
  IN  [name |-> details.name,
       individualOrder |-> details.individualOrder,
       sharedCosts |-> details.sharedCosts,
       totalCost |-> details.totalCost,
       budgetUsage |-> details.budgetUsage,
       extraBudget |-> details.extraBudget,
       overBudget |-> details.overBudget,
       isOrderCreator |-> details.isOrderCreator,
       budgetHelpReceived |-> IF details.overBudget > 0 THEN toFixed2(share, den, tie) ELSE 0,
       finalPayment |-> IF details.overBudget > 0 THEN toFixed2(paid, den, tie) ELSE 0,
       status |-> IF details.overBudget > 0
                  THEN (IF paid > 0 THEN "pays" ELSE "covered")
                  ELSE (IF details.extraBudget > 0 THEN "helps_others" ELSE "exact")]

(* Step 2 for one participant, from the stored (rounded) details and the    *)
(* unrounded totals.  help and payment are fractions over den.              *)
finalPaymentOf(details, totalExtraBudget, totalOverBudget, tie) ==
  IF details.overBudget > 0
  THEN LET over == details.overBudget * Scale
           den == IF totalOverBudget > 0 THEN totalOverBudget ELSE 1
           (* totalExtraBudget * proportionOfOverBudget *)
           share == IF totalOverBudget > 0 THEN totalExtraBudget * over ELSE 0
           budgetHelpReceived == Min(over * den, share)
           finalPayment == Max(0, over * den - budgetHelpReceived)
       IN  [name |-> details.name,
            individualOrder |-> details.individualOrder,
            sharedCosts |-> details.sharedCosts,
            totalCost |-> details.totalCost,
            budgetUsage |-> details.budgetUsage,
            extraBudget |-> details.extraBudget,
            overBudget |-> details.overBudget,
            isOrderCreator |-> details.isOrderCreator,
            budgetHelpReceived |-> toFixed2(budgetHelpReceived, den, tie),
            finalPayment |-> toFixed2(finalPayment, den, tie),
            status |-> IF finalPayment > 0 THEN "pays" ELSE "covered"]
  ELSE [name |-> details.name,
        individualOrder |-> details.individualOrder,
        sharedCosts |-> details.sharedCosts,
        totalCost |-> details.totalCost,
        budgetUsage |-> details.budgetUsage,
        extraBudget |-> details.extraBudget,
        overBudget |-> details.overBudget,
        isOrderCreator |-> details.isOrderCreator,
        budgetHelpReceived |-> 0,
        finalPayment |-> 0,
        status |-> IF details.extraBudget > 0 THEN "helps_others" ELSE "exact"]

(* the comparison with < in place of <= *)
withinBudgetOf_strict(grandTotal, totalCompanyBudget) == grandTotal < totalCompanyBudget

(* const withinBudget = grandTotal <= totalCompanyBudget *)
withinBudgetOf(grandTotal, totalCompanyBudget) == grandTotal <= totalCompanyBudget

(* calculateDistribution(orderData, settings); with no participant neither  *)
(* forEach runs and sharedCostsPerPerson is only returned in the breakdown  *)
calculateDistribution(orderData, settings, tie) ==
  LET people == orderData.people
      n == Len(people)
      delivery == orderData.delivery * Scale
      service == orderData.service * Scale
      discount == orderData.discount * Scale
      budget == budgetOf(settings) * Scale
      participantNames == [i \in 1..n |-> people[i].name]
      orderSubtotal == SumSeq([i \in 1..n |-> people[i].amount * Scale])
      grandTotal == orderSubtotal + delivery + service + discount
      totalCompanyBudget == budget * n
      orderCreator == findOrderCreator(participantNames)
      sharedCostsTotal == delivery + service + discount
      sharedCostsPerPersonValue == dividedByCount(sharedCostsTotal, n)
      sharedCostsPerPerson == sharedCostsPerPersonValue.v
      raw == [i \in 1..n |-> step1(people[i].amount * Scale, sharedCostsPerPerson, budget)]
      participantDetails ==
        [i \in 1..n |-> participantDetail(participantNames[i], raw[i], orderCreator, tie)]
      totalExtraBudget == SumSeq([i \in 1..n |-> raw[i].extraBudget])
      totalOverBudget == SumSeq([i \in 1..n |-> raw[i].overBudget])
      finalPayments ==
        [i \in 1..n |-> finalPaymentOf(participantDetails[i], totalExtraBudget,
                                       totalOverBudget, tie)]
  IN  [results |-> finalPayments,
       withinBudget |-> withinBudgetOf(grandTotal, totalCompanyBudget),
       orderCreator |-> orderCreator,
       breakdown |-> [orderSubtotal |-> orderSubtotal,
                      delivery |-> delivery,
                      service |-> service,
                      discount |-> discount,
                      grandTotal |-> grandTotal,
                      totalBudget |-> totalCompanyBudget,
                      sharedCostsTotal |-> sharedCostsTotal,
                      sharedCostsPerPerson |-> sharedCostsPerPersonValue,
                      totalExtraBudget |-> totalExtraBudget,
                      totalOverBudget |-> totalOverBudget,
                      participantCount |-> n]]

(***************************************************************************)
(* Strings of the settings forms: sequences of characters.                 *)
(***************************************************************************)
Digits == <<"0","1","2","3","4","5","6","7","8","9">>
digitValue(c) == (CHOOSE i \in 1..10 : Digits[i] = c) - 1

isWhiteSpace(c) == c \in {" ", "\t", "\n", "\r"}

(* String.prototype.trim *)
RECURSIVE trimStart(_)
trimStart(s) == IF s # <<>> /\ isWhiteSpace(Head(s)) THEN trimStart(Tail(s)) ELSE s
RECURSIVE trimEnd(_)
trimEnd(s) ==
  IF s # <<>> /\ isWhiteSpace(s[Len(s)]) THEN trimEnd(SubSeq(s, 1, Len(s) - 1)) ELSE s
trim(s) == trimEnd(trimStart(s))

startsWith(s, prefix) == Len(s) >= Len(prefix) /\ SubSeq(s, 1, Len(prefix)) = prefix

(* the length of the run of decimal digits at the head of s *)
RECURSIVE digitRun(_)
digitRun(s) ==
  IF s # <<>> /\ (\E i \in 1..10 : Digits[i] = Head(s)) THEN 1 + digitRun(Tail(s)) ELSE 0

(* the value of a sequence of decimal digits *)
RECURSIVE digitsValue(_)
digitsValue(s) ==
  IF s = <<>> THEN 0 ELSE digitsValue(SubSeq(s, 1, Len(s) - 1)) * 10 + digitValue(s[Len(s)])

(* the cents of the decimals of a literal: its first two digits *)
centsOf(fracDigits) ==
  (IF Len(fracDigits) >= 1 THEN digitValue(fracDigits[1]) * 10 ELSE 0)
  + (IF Len(fracDigits) >= 2 THEN digitValue(fracDigits[2]) ELSE 0)

(* the number of a literal with the given integer digits and decimals *)
numberOfParts(intDigits, fracDigits) ==
  IF intDigits = <<>> /\ fracDigits = <<>> THEN NaN
  ELSE Num(digitsValue(intDigits) * 100 + centsOf(fracDigits))

(* the decimals that follow the integer digits: those after a point *)
fractionOf(afterInt) ==
  IF afterInt # <<>> /\ Head(afterInt) = "."
  THEN SubSeq(Tail(afterInt), 1, digitRun(Tail(afterInt)))
  ELSE <<>>

numberWithInteger(u, ni) ==
  numberOfParts(SubSeq(u, 1, ni), fractionOf(SubSeq(u, ni + 1, Len(u))))

unsignedNumber(u) == numberWithInteger(u, digitRun(u))

negate(value) == IF value.t = "number" THEN Num(0 - value.v) ELSE value

signedNumber(t) ==
  IF t # <<>> /\ Head(t) = "-" THEN negate(unsignedNumber(Tail(t)))
  ELSE IF t # <<>> /\ Head(t) = "+" THEN unsignedNumber(Tail(t))
  ELSE unsignedNumber(t)

(* parseFloat(string): the longest prefix that is a decimal literal, in     *)
(* cents, NaN when there is none.  The strings of the model carry at most   *)
(* two decimals and no exponent.                                            *)
parseFloat(string) == signedNumber(trimStart(string))

(* the decimal digits of a natural number *)
RECURSIVE natToString(_)
natToString(n) ==
  IF n < 10 THEN <<Digits[n + 1]>> ELSE Append(natToString(n \div 10), Digits[(n % 10) + 1])

(* String(number), what a DOM value becomes when a number of cents is       *)
(* assigned to it                                                           *)
numberToString(c) ==
  LET m == Abs(c)
      whole == natToString(m \div 100)
      f == m % 100
      digits == IF f = 0 THEN whole
                ELSE IF f % 10 = 0 THEN whole \o <<".", Digits[(f \div 10) + 1]>>
                ELSE whole \o <<".", Digits[(f \div 10) + 1], Digits[(f % 10) + 1]>>
  IN  IF c < 0 THEN <<"-">> \o digits ELSE digits

(* value || 14 on a number: NaN and 0 are falsy *)
orDefault(value) ==
  IF value.t = "number" /\ value.v # 0 THEN value ELSE Num(DefaultBudget)

(***************************************************************************)
(* The popup (saveSettings, loadSettings) and the debug popup.             *)
(***************************************************************************)
(* the client-side check of saveSettings: the error shown, "" when none *)
popupTikkieError(tikkieValue) ==
  IF tikkieValue = <<>> THEN ""
  ELSE IF ~startsWith(tikkieValue, <<"h","t","t","p","s",":","/","/">>)
       THEN "Tikkie URL must use HTTPS for security"
  ELSE IF ~includes(tikkieValue, <<"t","i","k","k","i","e",".","m","e">>)
       THEN "Only official Tikkie URLs (tikkie.me) are allowed"
  ELSE IF \E pattern \in { <<"j","a","v","a","s","c","r","i","p","t",":">>,
    <<"d","a","t","a",":">>,
    <<"<","s","c","r","i","p","t">>,
    <<"o","n","l","o","a","d","=">>,
    <<"e","v","a","l","(">> } : includes(toLowerCase(tikkieValue), pattern)
       THEN "URL contains suspicious content and cannot be saved"
  ELSE ""

(* the dailyBudget that saveSettings derives from the input value *)
popupDailyBudget(dailyBudgetInput) ==
  IF dailyBudgetInput = <<>> THEN Num(DefaultBudget)
  ELSE LET dailyBudget == parseFloat(dailyBudgetInput)
       IN  IF dailyBudget.t = "NaN" \/ dailyBudget.v < 0
           THEN Num(DefaultBudget)
           ELSE dailyBudget

(* const dailyBudget = parseFloat(value) || 14  (saveSettingsDebug) *)
debugDailyBudget(dailyBudgetInput) == orDefault(parseFloat(dailyBudgetInput))

(* value = settings.dailyBudget || 14  (loadSettingsDebug) *)
debugBudgetField(dailyBudget) == numberToString(orDefault(dailyBudget).v)

(* value = settings.dailyBudget  (loadSettings of the popup) *)
popupBudgetField(dailyBudget) == numberToString(dailyBudget.v)

(***************************************************************************)
(* calculateAlternativeDistribution of the content script.                 *)
(***************************************************************************)
(* results[name] = amount on the sequence of the entries of an object *)
setEntry(results, name, amount) ==
  IF \E i \in 1..Len(results) : results[i].name = name
  THEN [i \in 1..Len(results) |->
          IF results[i].name = name THEN [name |-> name, amount |-> amount]
          ELSE results[i]]
  ELSE Append(results, [name |-> name, amount |-> amount])

(* the overage of one participant in the else branch: total - budget as a   *)
(* fraction over den sub-cent units, floored at 0 and rounded by toFixed(2) *)
alternativeOverage(subtotal, extraPerPerson, discount, subtotalCents, budget, tie) ==
  IF discount # 0 /\ subtotalCents > 0
  THEN toFixed2(Max(0, (subtotal * Scale + extraPerPerson - budget * Scale) * subtotalCents
                       + subtotal * discount * Scale),
                subtotalCents, tie)
  ELSE toFixed2(Max(0, subtotal * Scale + extraPerPerson - budget * Scale), 1, tie)

(* the else branch: the overages, then the remainder for the order creator *)
alternativeExcessSplit(od, budget, excessAmount, tie) ==
  LET people == od.people
      n == Len(people)
      extraPerPerson == dividedByCount((od.delivery + od.service) * Scale, n)
      subtotalCents == SumSeq([i \in 1..n |-> people[i].amount])
      overages == [i \in 1..n |->
                     [name |-> people[i].name,
                      amount |-> alternativeOverage(people[i].amount, extraPerPerson.v,
                                                    od.discount, subtotalCents, budget, tie)]]
      participantTotal == SumSeq([i \in 1..n |-> overages[i].amount])
      remaining == excessAmount - participantTotal
  IN  IF remaining > 0
      THEN setEntry(overages,
                    <<"Y","o","u"," ","(","O","r","d","e","r"," ",
                      "C","r","e","a","t","o","r",")">>,
                    remaining)
      ELSE overages

(* calculateAlternativeDistribution(orderData, settings): the entries of the *)
(* results object, amounts in cents                                        *)
calculateAlternativeDistribution(od, alternativeSettings, tie) ==
  LET n == Len(od.people)
      budget == budgetOf(alternativeSettings)
      orderSubtotal == SumSeq([i \in 1..n |-> od.people[i].amount])
      grandTotal == orderSubtotal + od.delivery + od.service + od.discount
      totalBudget == budget * n
  IN  IF grandTotal <= totalBudget
      THEN [i \in 1..n |-> [name |-> od.people[i].name, amount |-> 0]]
      ELSE alternativeExcessSplit(od, budget, grandTotal - totalBudget, tie)

(***************************************************************************)
(* The background script: DEFAULT_SETTINGS and the CALCULATE_ORDER handler. *)
(***************************************************************************)
EmptyString == <<>>

(* DEFAULT_SETTINGS of the background script (currency is constant and left out) *)
DEFAULT_SETTINGS == [dailyBudget |-> Num(DefaultBudget), tikkieLink |-> EmptyString]

(* calculateOrderDistribution(orderData, settings) of the background script, *)
(* with budget = settings.dailyBudget || DEFAULT_SETTINGS.dailyBudget;      *)
(* results is the sequence of the entries of the results object             *)
calculateOrderDistribution(od, storedSettings, tie) ==
  LET people == od.people
      n == Len(people)
      delivery == od.delivery * Scale
      service == od.service * Scale
      discount == od.discount * Scale
      budget == orDefault(storedSettings.dailyBudget).v * Scale
      extraFeesTotal == delivery + service
      extraPerPerson == IF n > 0 THEN extraFeesTotal \div n ELSE 0
      subtotalCents == SumSeq([i \in 1..n |-> people[i].amount])
      orderSubtotal == subtotalCents * Scale
      proportional == od.discount # 0 /\ subtotalCents > 0
      den == IF proportional THEN subtotalCents ELSE 1
      (* total - budget as a fraction over den *)
      excess(i) == (people[i].amount * Scale + extraPerPerson - budget) * den
                   + (IF proportional THEN people[i].amount * discount ELSE 0)
      shares == [i \in 1..n |->
                   [name |-> people[i].name,
                    amount |-> toFixed2(Max(0, excess(i)), den, tie)]]
      grandTotal == orderSubtotal + extraFeesTotal + discount
      totalBudget == budget * n
      extraForOwner == Max(0, grandTotal - totalBudget)
  IN  [results |-> IF extraForOwner > 0
                   THEN Append(shares,
                               [name |-> <<"Y","o","u"," ","(","O","r","d","e","r"," ",
                                           "O","w","n","e","r",")">>,
                                amount |-> toFixed2(extraForOwner, 1, tie)])
                   ELSE shares,
       breakdown |-> [orderSubtotal |-> orderSubtotal,
                      delivery |-> delivery,
                      service |-> service,
                      discount |-> discount,
                      grandTotal |-> grandTotal,
                      totalBudget |-> totalBudget,
                      extraForOwner |-> extraForOwner,
                      participantCount |-> n]]

(***************************************************************************)
(* SecurityManager: validateTikkieUrl, encrypt and decrypt.                *)
(***************************************************************************)
(* the position of the first occurrence of c in s, 0 when there is none *)
RECURSIVE indexOfChar(_, _)
indexOfChar(s, c) ==
  IF s = <<>> THEN 0
  ELSE IF Head(s) = c THEN 1
  ELSE IF indexOfChar(Tail(s), c) = 0 THEN 0
  ELSE 1 + indexOfChar(Tail(s), c)

(* the length of the run of "/" at the head of s *)
RECURSIVE slashRun(_)
slashRun(s) == IF s # <<>> /\ Head(s) = "/" THEN 1 + slashRun(Tail(s)) ELSE 0

(* the host of the part of an http(s) URL after the slashes: up to the     *)
(* first "/", "?" or "#"                                                   *)
RECURSIVE hostRun(_)
hostRun(s) ==
  IF s # <<>> /\ Head(s) \notin {"/", "?", "#"} THEN 1 + hostRun(Tail(s)) ELSE 0

FailedUrl == [parsed |-> FALSE, protocol |-> <<>>, hostname |-> <<>>]

(* the URL of an http(s) scheme and of what follows its ":"; an empty host   *)
(* or a host with white space does not parse                                *)
specialUrl(scheme, rest) ==
  LET host == SubSeq(rest, slashRun(rest) + 1, slashRun(rest) + hostRun(
                       SubSeq(rest, slashRun(rest) + 1, Len(rest))))
  IN  IF host = <<>> \/ \E i \in 1..Len(host) : isWhiteSpace(host[i])
      THEN FailedUrl
      ELSE [parsed |-> TRUE,
            protocol |-> Append(toLowerCase(scheme), ":"),
            hostname |-> toLowerCase(host)]

(* the URL of the text before the first ":" and of the text after it *)
urlOfScheme(scheme, rest) ==
  IF scheme = <<>>
     \/ \E i \in 1..Len(scheme) :
          \A k \in 1..Len(LowerCase) : LowerCase[k] # scheme[i] /\ UpperCase[k] # scheme[i]
  THEN FailedUrl
  ELSE IF toLowerCase(scheme) \in {<<"h","t","t","p">>, <<"h","t","t","p","s">>}
  THEN specialUrl(scheme, rest)
  ELSE [parsed |-> TRUE, protocol |-> Append(toLowerCase(scheme), ":"), hostname |-> <<>>]

(* new URL(url) without a base: the protocol and the hostname, or the       *)
(* TypeError of a text that is no absolute URL                             *)
newURL(url) ==
  IF indexOfChar(url, ":") = 0 THEN FailedUrl
  ELSE urlOfScheme(SubSeq(url, 1, indexOfChar(url, ":") - 1),
                   SubSeq(url, indexOfChar(url, ":") + 1, Len(url)))

containsSuspiciousPatterns(url) ==
  \E pattern \in { <<"j","a","v","a","s","c","r","i","p","t",":">>,
    <<"d","a","t","a",":">>,
    <<"v","b","s","c","r","i","p","t",":">>,
    <<"<","s","c","r","i","p","t">>,
    <<"o","n","l","o","a","d","=">>,
    <<"o","n","e","r","r","o","r","=">>,
    <<"o","n","c","l","i","c","k","=">>,
    <<"e","v","a","l","(">>,
    <<"a","l","e","r","t","(">>,
    <<"d","o","c","u","m","e","n","t",".">>,
    <<"w","i","n","d","o","w",".">> } : includes(toLowerCase(url), pattern)

Invalid(error) == [valid |-> FALSE, url |-> <<>>, error |-> error]
Valid(url) == [valid |-> TRUE, url |-> url, error |-> ""]

(* the checks of validateTikkieUrl on a parsed URL *)
validateParsedUrl(url, urlObj) ==
  IF ~urlObj.parsed THEN Invalid("Invalid URL format")
  ELSE IF urlObj.hostname \notin { <<"t","i","k","k","i","e",".","m","e">>,
    <<"w","w","w",".","t","i","k","k","i","e",".","m","e">>,
    <<"a","p","p",".","t","i","k","k","i","e",".","m","e">> }
       THEN Invalid("Only official Tikkie URLs (tikkie.me) are allowed")
  ELSE IF urlObj.protocol # <<"h","t","t","p","s",":">>
       THEN Invalid("Only HTTPS URLs are allowed for security")
  ELSE IF containsSuspiciousPatterns(url) THEN Invalid("URL contains suspicious patterns")
  ELSE Valid(url)

(* SecurityManager.validateTikkieUrl(url) on a string: the empty string is  *)
(* falsy and fails the first check                                         *)
validateTikkieUrl(url) ==
  IF url = <<>> THEN Invalid("URL is required")
  ELSE IF Len(trim(url)) = 0 THEN Valid(<<>>)
  ELSE validateParsedUrl(trim(url), newURL(trim(url)))

EncryptedPrefix == <<"e","n","c","r","y","p","t","e","d",":">>

(* generateKey(): the key is derived from the extension id, the user agent  *)
(* and Date.now(); of these only the time differs between two calls        *)
generateKey(timestamp) == natToString(timestamp)

NoData == [thrown |-> TRUE, data |-> <<>>]
Data(data) == [thrown |-> FALSE, data |-> data]

(* encrypt(plaintext) at the given time.  AES-GCM is taken as authenticated *)
(* encryption: the ciphertext is written as the key that opens it followed  *)
(* by "|" and the plaintext, and no other key opens it.                     *)
encrypt(plaintext, timestamp) ==
  IF plaintext = <<>> THEN NoData
  ELSE Data(generateKey(timestamp) \o <<"|">> \o plaintext)

(* decrypt(encryptedData) at the given time: crypto.subtle.decrypt rejects  *)
(* under any key but the one of the encryption                              *)
decrypt(encryptedData, timestamp) ==
  IF encryptedData = <<>> THEN NoData
  ELSE LET bar == indexOfChar(encryptedData, "|")
       IN  IF bar = 0 \/ SubSeq(encryptedData, 1, bar - 1) # generateKey(timestamp)
           THEN NoData
           ELSE Data(SubSeq(encryptedData, bar + 1, Len(encryptedData)))

(***************************************************************************)
(* The background script: the UPDATE_SETTINGS and GET_SETTINGS handlers of  *)
(* its two versions, part_002 (stores the link as validated) and part_003   *)
(* (encrypts it).  sendResponse answers a message once: the response is the *)
(* first one the handler sends.                                            *)
(***************************************************************************)
Failure(error) == [success |-> FALSE, error |-> error]
Success == [success |-> TRUE, error |-> <<>>]

handled(response, stored) == [response |-> response, storage |-> stored]

(* await chrome.storage.sync.set(settingsToStore); sendResponse(...) of      *)
(* part_002: a rejected write is answered with 'Storage failed: ...'        *)
storeSettings(stored, dailyBudget, tikkieLink, written) ==
  IF written
  THEN handled(Success, [dailyBudget |-> dailyBudget, tikkieLink |-> tikkieLink])
  ELSE handled(Failure(<<"Storage failed: ", "rejected">>), stored)

(* the link part_002 stores for a validation that passed *)
validatedLink(validation) ==
  IF validation.url # <<>> /\ Len(trim(validation.url)) > 0 THEN validation.url ELSE <<>>

(* handleUpdateSettings of part_002.  The failures of validateExtensionContext *)
(* and checkRateLimit are caught and ignored.  The fallback security manager *)
(* has no validateTikkieUrl: the call throws and the raw value is stored,   *)
(* trimmed.                                                                *)
handleUpdateSettings(stored, newSettings, manager, written) ==
  IF manager = "fallback"
  THEN storeSettings(stored, newSettings.dailyBudget, trim(newSettings.tikkieLink), written)
  ELSE IF ~validateTikkieUrl(newSettings.tikkieLink).valid
  THEN handled(Failure(<<"Invalid Tikkie URL: ",
                         validateTikkieUrl(newSettings.tikkieLink).error>>), stored)
  ELSE storeSettings(stored, newSettings.dailyBudget,
                     validatedLink(validateTikkieUrl(newSettings.tikkieLink)), written)

(* part_003: the link of a validation that passed, encrypted *)
updateEncrypted(stored, newSettings, validation, encrypted, written) ==
  IF ~validation.valid
  THEN handled(Failure(<<"Invalid Tikkie URL: ", validation.error>>), stored)
  ELSE IF validatedLink(validation) = <<>>
  THEN IF written
       THEN handled(Success, [dailyBudget |-> newSettings.dailyBudget, tikkieLink |-> <<>>])
       ELSE handled(Failure(<<"rejected">>), stored)
  ELSE IF encrypted.thrown
  THEN handled(Failure(<<"Failed to securely store Tikkie link">>), stored)
  ELSE IF written
  THEN handled(Success, [dailyBudget |-> newSettings.dailyBudget,
                         tikkieLink |-> EncryptedPrefix \o encrypted.data])
  ELSE handled(Failure(<<"rejected">>), stored)

(* SecurityManager.checkRateLimit at the given time, from the attempts kept  *)
(* in localStorage: whether it throws, and the attempts it leaves there     *)
checkRateLimit(stored, maxAttempts, windowMs, timestamp) ==
  LET recent == SelectSeq(stored, LAMBDA t : timestamp - t < windowMs)
  IN  IF Len(recent) >= maxAttempts
      THEN [thrown |-> TRUE, attempts |-> stored]
      ELSE [thrown |-> FALSE, attempts |-> Append(recent, timestamp)]

(* checkRateLimit('settings_update', 10, 60000) of the security manager in  *)
(* use; the one of the fallback object returns true and records nothing     *)
settingsUpdateLimit(manager, stored, timestamp) ==
  IF manager = "fallback" THEN [thrown |-> FALSE, attempts |-> stored]
  ELSE checkRateLimit(stored, 10, 60000, timestamp)

(* handleUpdateSettings of part_003 at the given time *)
handleUpdateSettingsEncrypting(stored, newSettings, context, rateLimited, timestamp, written) ==
  IF context # "valid" THEN handled(Failure(<<"Invalid extension context">>), stored)
  ELSE IF rateLimited THEN handled(Failure(<<"Rate limit exceeded">>), stored)
  ELSE updateEncrypted(stored, newSettings, validateTikkieUrl(newSettings.tikkieLink),
                       encrypt(validateTikkieUrl(newSettings.tikkieLink).url, timestamp),
                       written)

(* chrome.storage.sync.get(DEFAULT_SETTINGS) with a falsy test of the value *)
storedOrDefault_falsy(value, default) ==
  IF value.t = "number" /\ value.v # 0 THEN value ELSE default

(* chrome.storage.sync.get(DEFAULT_SETTINGS) and { ...DEFAULT_SETTINGS,      *)
(* ...result }: the default stands in for a key that is not stored          *)
storedOrDefault(value, default) == IF value = Undefined THEN default ELSE value

(* the tikkieLink of the settings handleGetSettings returns; the fallback   *)
(* security manager throws at validateTikkieUrl and the link is cleared     *)
returnedLink(tikkieLink, manager, timestamp) ==
  IF tikkieLink # <<>> /\ startsWith(tikkieLink, EncryptedPrefix)
  THEN IF manager = "fallback" THEN <<>>
       ELSE LET decrypted == decrypt(SubSeq(tikkieLink, 11, Len(tikkieLink)), timestamp)
            IN  IF decrypted.thrown THEN <<>>
                ELSE IF validateTikkieUrl(decrypted.data).valid
                THEN validateTikkieUrl(decrypted.data).url
                ELSE <<>>
  ELSE tikkieLink

NoSettings == [dailyBudget |-> Undefined, tikkieLink |-> <<>>]

(* handleGetSettings (the same in both versions) at the given time *)
handleGetSettings(stored, manager, context, timestamp, read) ==
  IF manager # "fallback" /\ context # "valid"
  THEN [success |-> FALSE, settings |-> NoSettings]
  ELSE IF ~read THEN [success |-> FALSE, settings |-> NoSettings]
  ELSE [success |-> TRUE,
        settings |-> [dailyBudget |-> storedOrDefault(stored.dailyBudget,
                                                      DEFAULT_SETTINGS.dailyBudget),
                      tikkieLink |-> returnedLink(stored.tikkieLink, manager, timestamp)]]

(***************************************************************************)
(* Inputs of the calculator.                                               *)
(***************************************************************************)
You == <<"Y","o","u">>
Bob == <<"B","o","b">>
Carol == <<"C","a","r","o","l">>
Meg == <<"M","e","g">>
Budgets == {Undefined, Null, Num(0), Num(700)}

(* the people objects: up to MaxParticipants entries with distinct names;   *)
(* the empty object is among them                                           *)
PeopleOfSize(n) ==
  {p \in [1..n -> [name : {You, Bob, Carol, Meg}, amount : {0, 500, 900}]] :
     \A i, j \in 1..n : i # j => p[i].name # p[j].name}

OrderDatas ==
  [people : UNION {PeopleOfSize(n) : n \in 0..MaxParticipants},
   delivery : {0, 101}, service : {0, 50}, discount : {0 - 300, 0, 200}]

NoResult ==
  [results |-> <<>>, withinBudget |-> FALSE, orderCreator |-> <<>>,
   breakdown |-> [orderSubtotal |-> 0, delivery |-> 0, service |-> 0, discount |-> 0,
                  grandTotal |-> 0, totalBudget |-> 0, sharedCostsTotal |-> 0,
                  sharedCostsPerPerson |-> Num(0), totalExtraBudget |-> 0,
                  totalOverBudget |-> 0, participantCount |-> 0]]

(***************************************************************************)
(* Inputs of the settings forms and of the CALCULATE_ORDER handler.        *)
(***************************************************************************)
TikkieUrl == <<"h","t","t","p","s",":","/","/","t","i","k","k","i","e",".","m","e","/","p">>
(* the dailyBudget values that UPDATE_SETTINGS stores as submitted *)
StoredBudgets == {Num(DefaultBudget), Num(0), Num(750)}

OrderRequests ==
  { [people |-> <<>>, delivery |-> 0, service |-> 0, discount |-> 0],
    [people |-> <<[name |-> Bob, amount |-> 500]>>,
     delivery |-> 0, service |-> 0, discount |-> 0],
    [people |-> <<[name |-> Bob, amount |-> 500], [name |-> Carol, amount |-> 900]>>,
     delivery |-> 101, service |-> 50, discount |-> 0],
    [people |-> <<[name |-> Bob, amount |-> 500], [name |-> Carol, amount |-> 900]>>,
     delivery |-> 101, service |-> 0, discount |-> 0 - 300] }

NoOrderResponse ==
  [success |-> FALSE,
   result |-> [results |-> <<>>,
               breakdown |-> [orderSubtotal |-> 0, delivery |-> 0, service |-> 0,
                              discount |-> 0, grandTotal |-> 0, totalBudget |-> 0,
                              extraForOwner |-> 0, participantCount |-> 0]]]

(* localStorage after nine updates, the window of which is about to end *)
NearLimit == [i \in 1..9 |-> 1 - 60000]

MaxHandlerRuns == 2
MaxPageChanges == 1
MaxRequests == 2
MaxTime == 2

(* the tikkieLink of an UPDATE_SETTINGS: empty, a direct URL, the URL in     *)
(* white space, a payment message around the URL, text without a URL, the   *)
(* URL over http, white space alone                                        *)
TikkieMessage == <<"p","a","y"," ">> \o TikkieUrl \o <<"\n","t","h","x">>
NoUrlText == <<"j","u","s","t"," ","t","e","x","t">>
UpdateRequests ==
  [dailyBudget : {Num(0), Num(750)},
   tikkieLink : { EmptyString, TikkieUrl, <<" ">> \o TikkieUrl \o <<" ">>, TikkieMessage,
                  NoUrlText,
                  <<"h","t","t","p",":","/","/","t","i","k","k","i","e",".","m","e","/","p">>,
                  <<" ">> }]

(***************************************************************************)
(* The page of the content script and the Page Parser.  The DOM is taken   *)
(* as what the parsing strategies find in it: whether the page carries an  *)
(* order indicator, the order parseFromStructuredElements assembles (null  *)
(* when it finds no participant), and for parseFromText the participants   *)
(* it collects and the amounts matched on the fee lines, as text.          *)
(***************************************************************************)
NoOrder == [people |-> <<>>, delivery |-> 0, service |-> 0, discount |-> 0]

(* the limits of validateOrderData: participants, and cents per participant *)
MaxOrderParticipants == 50
MaxOrderAmount == 100000

(* parseFloat(m[2].replace(/\./g, '').replace(',', '.')) *)
parseEuroAmount(numStr) ==
  LET s == SelectSeq(numStr, LAMBDA c : c # ".")
  IN  parseFloat([i \in 1..Len(s) |->
                    IF s[i] = "," /\ \A j \in 1..(i - 1) : s[j] # "," THEN "." ELSE s[i]])

(* no fee line matched *)
NoFeeText == <<>>

(* parseFromText(): the participants collected and parseFeesFromText on the *)
(* fee lines                                                                *)
parseFromText(text) ==
  [people |-> text.people,
   delivery |-> IF text.delivery = NoFeeText THEN Num(0) ELSE parseEuroAmount(text.delivery),
   service |-> IF text.service = NoFeeText THEN Num(0) ELSE parseEuroAmount(text.service),
   discount |-> IF text.discount = NoFeeText THEN Num(0)
                ELSE IF parseEuroAmount(text.discount).t # "number" THEN NaN
                ELSE IF text.discountNegated THEN negate(parseEuroAmount(text.discount))
                ELSE parseEuroAmount(text.discount)]

NoText == [people |-> <<>>, delivery |-> NoFeeText, service |-> NoFeeText,
           discount |-> NoFeeText, discountNegated |-> FALSE]

(* a page without order indicator *)
NotAnOrderPage == [indicators |-> FALSE, structured |-> <<>>, text |-> NoText]

(* a page on which the structured strategy assembles the given order *)
StructuredPage(people, delivery, service, discount) ==
  [indicators |-> TRUE,
   structured |-> <<[people |-> people, delivery |-> Num(delivery),
                     service |-> Num(service), discount |-> Num(discount)]>>,
   text |-> NoText]

(* a page on which only the text strategy finds participants *)
TextPage(people, delivery, service, discount, discountNegated) ==
  [indicators |-> TRUE,
   structured |-> <<>>,
   text |-> [people |-> people, delivery |-> delivery, service |-> service,
             discount |-> discount, discountNegated |-> discountNegated]]

CarolAlone == <<[name |-> Carol, amount |-> Num(1500)]>>

(* more participants than validateOrderData accepts, with generated names *)
Crowd == [i \in 1..(MaxOrderParticipants + 1) |->
            [name |-> <<"P">> \o natToString(i), amount |-> Num(100)]]

(* the pages: no order page; two orders that parse and validate; pages that *)
(* validateOrderData rejects for their participants (none, an amount above *)
(* the ceiling, an empty name, too many); pages whose fee text is negative  *)
(* or no number                                                            *)
Pages ==
  { NotAnOrderPage,
    StructuredPage(<<[name |-> Bob, amount |-> Num(500)],
                     [name |-> You, amount |-> Num(900)]>>, 101, 50, 0),
    TextPage(CarolAlone, NoFeeText, NoFeeText, <<"3", ",", "0", "0">>, TRUE),
    TextPage(<<>>, NoFeeText, NoFeeText, NoFeeText, FALSE),
    StructuredPage(<<[name |-> Bob, amount |-> Num(MaxOrderAmount + 1)]>>, 0, 0, 0),
    StructuredPage(<<[name |-> <<>>, amount |-> Num(500)]>>, 0, 0, 0),
    TextPage(Crowd, NoFeeText, NoFeeText, NoFeeText, FALSE),
    TextPage(CarolAlone, <<"-", "5", ",", "0", "0">>, NoFeeText, NoFeeText, FALSE),
    TextPage(CarolAlone, NoFeeText, <<"-", "0", ",", "5", "0">>, NoFeeText, FALSE),
    TextPage(CarolAlone, <<",">>, NoFeeText, NoFeeText, FALSE) }

ParsingFailed ==
  "Order parsing failed: This does not appear to be a valid order page. Please refresh the page or contact support if the issue persists."
NoParticipantsDetected ==
  "No order participants detected. The order may still be loading or the page format has changed."
PricesNotParsed ==
  "Order prices could not be parsed correctly. Please refresh the page and try again."
TooManyParticipants ==
  "Order parsing failed: Too many participants detected (>50). This may indicate a parsing error.. Please refresh the page or contact support if the issue persists."
InvalidParticipantName ==
  "Order parsing failed: Invalid participant name detected. Please refresh the page or contact support if the issue persists."
UnusuallyHighAmount ==
  "Order parsing failed: Unusually high amount detected. Please verify the order data.. Please refresh the page or contact support if the issue persists."
InvalidFeeData ==
  "Order parsing failed: Invalid fee data. Please refresh the page or contact support if the issue persists."
(* the check of one participant: the error of parseOrderData it leads to,   *)
(* "" when the entry passes                                                 *)
participantError(entry) ==
  IF trim(entry.name) = <<>> THEN InvalidParticipantName
  ELSE IF entry.amount.t \notin {"number", "Infinity"} THEN PricesNotParsed
  ELSE IF entry.amount.t = "number" /\ entry.amount.v < 0 THEN PricesNotParsed
  ELSE IF entry.amount.t = "Infinity" \/ entry.amount.v > MaxOrderAmount
       THEN UnusuallyHighAmount
  ELSE ""

(* the check of one fee: undefined is skipped, a non-number and NaN throw *)
feeError(fee) ==
  IF fee.t \in {"NaN", "null"} THEN InvalidFeeData ELSE ""

(* validateOrderData without the ceiling on the number of participants *)
validateOrderData_noCeiling(raw) ==
  LET n == Len(raw.people)
      failing == {i \in 1..n : participantError(raw.people[i]) # ""}
  IN  IF n = 0 THEN NoParticipantsDetected
      ELSE IF failing # {}
           THEN participantError(raw.people[CHOOSE i \in failing : \A j \in failing : i <= j])
      ELSE IF feeError(raw.delivery) # "" THEN feeError(raw.delivery)
      ELSE IF feeError(raw.service) # "" THEN feeError(raw.service)
      ELSE feeError(raw.discount)

(* validateOrderData(orderData): "" when it passes, otherwise the message   *)
(* parseOrderData makes of the error thrown                                 *)
validateOrderData(raw) ==
  LET n == Len(raw.people)
      failing == {i \in 1..n : participantError(raw.people[i]) # ""}
  IN  IF n = 0 THEN NoParticipantsDetected
      ELSE IF n > MaxOrderParticipants THEN TooManyParticipants
      ELSE IF failing # {}
           THEN participantError(raw.people[CHOOSE i \in failing : \A j \in failing : i <= j])
      ELSE IF feeError(raw.delivery) # "" THEN feeError(raw.delivery)
      ELSE IF feeError(raw.service) # "" THEN feeError(raw.service)
      ELSE feeError(raw.discount)

(* the end of parseOrderData: validateOrderData on what a strategy found *)
validated(raw, error) ==
  IF error # "" THEN [error |-> error, orderData |-> NoOrder]
  ELSE [error |-> "",
        orderData |-> [people |-> [i \in 1..Len(raw.people) |->
                                     [name |-> raw.people[i].name,
                                      amount |-> raw.people[i].amount.v]],
                       delivery |-> raw.delivery.v,
                       service |-> raw.service.v,
                       discount |-> raw.discount.v]]

(* the order of the structured strategy, or of the text strategy when the   *)
(* first found no participant                                               *)
parsedBy(thePage) ==
  IF thePage.structured # <<>> /\ Len(thePage.structured[1].people) > 0
  THEN thePage.structured[1]
  ELSE parseFromText(thePage.text)

(* parseOrderData(): the order data, or the error it throws *)
parseOrderData(thePage) ==
  IF ~thePage.indicators THEN [error |-> ParsingFailed, orderData |-> NoOrder]
  ELSE validated(parsedBy(thePage), validateOrderData(parsedBy(thePage)))

VARIABLES
  orderData,     \* the OrderData argument of the call of calculateDistribution
  settings,      \* the settings argument of the call
  returned,      \* whether calculateDistribution has returned
  result,        \* the DistributionResult it returned
  alternativeReturned,  \* whether calculateAlternativeDistribution has returned
  alternativeResults,   \* the entries of the results object it returned
  budgetField,   \* value of the #daily-budget input of the popup
  tikkieField,   \* value of the #tikkie-link input of the popup
  popupError,    \* the error saveSettings shows, "" when none
  storage,       \* chrome.storage.sync: dailyBudget and tikkieLink
  updateSent,    \* the settings of the UPDATE_SETTINGS message last sent, if any
  orderRequest,  \* message.data of the CALCULATE_ORDER request last handled
  orderResponse, \* the response handleCalculateOrder sent for it
  lastHandler,   \* the handler that ran last
  lastOutcome,   \* how the request of that handler was answered
  handlerRuns,   \* how many handlers have run
  page,          \* the page the content script runs on
  pageChanges,   \* how often the page has changed what it shows
  currentSettings,    \* content script: currentSettings
  calculationResults, \* content script: calculationResults, <<>> for null
  isCalculating,      \* content script: isCalculating
  modal,         \* what #group-order-modal-backdrop shows, "none" when absent
  autoTimer,     \* the timer of scheduleAutoCalculation is pending
  settingsRequested,  \* the GET_SETTINGS of loadSettings awaits its answer
  settingsAnswer,     \* the response to it on its way to the tab, if any
  notifications,      \* the SETTINGS_UPDATED messages on their way to the tab
  triggerResponse,    \* the response to the last TRIGGER_CALCULATION, if any
  loggedError,   \* the error of the last LOG_ERROR message, "" when none
  backgroundScript,  \* the version of the background script that runs
  securityManager,   \* "SecurityManager" of security.js or the "fallback" object
  extensionContext,  \* what validateExtensionContext finds: "valid" or "invalid"
  now,               \* Date.now()
  updateRequest,     \* the settings of the last UPDATE_SETTINGS
  updateResponse,    \* the response to it
  getResponse,       \* the response to the last GET_SETTINGS
  getTime,           \* the time of the last GET_SETTINGS
  attempts,          \* localStorage rateLimit_settings_update: times of the attempts
  secondResponse,    \* a second response to the last UPDATE_SETTINGS, if any
  lastRequest,       \* the type of the last message handled
  requests           \* the number of messages handled

calcVars == <<orderData, settings, returned, result, alternativeReturned, alternativeResults>>
settingsVars == <<budgetField, tikkieField, popupError, storage, updateSent,
                  orderRequest, orderResponse, lastHandler, lastOutcome, handlerRuns>>
contentVars == <<page, pageChanges, currentSettings, calculationResults, isCalculating, modal,
                 autoTimer, settingsRequested, settingsAnswer, notifications,
                 triggerResponse, loggedError>>
backgroundVars == <<backgroundScript, securityManager, extensionContext, now, updateRequest,
                    updateResponse, getResponse, getTime, attempts, secondResponse,
                    lastRequest, requests>>
vars == <<orderData, settings, returned, result, alternativeReturned, alternativeResults,
          budgetField, tikkieField, popupError, storage, updateSent,
          orderRequest, orderResponse, lastHandler, lastOutcome, handlerRuns,
          page, pageChanges, currentSettings, calculationResults, isCalculating, modal,
          autoTimer, settingsRequested, settingsAnswer, notifications,
          triggerResponse, loggedError,
          backgroundScript, securityManager, extensionContext, now, updateRequest,
          updateResponse, getResponse, getTime, attempts, secondResponse,
          lastRequest, requests>>

(* the calculator before any call: the arguments are those of the first call *)
CalcIdle ==
  /\ orderData = [people |-> <<[name |-> Bob, amount |-> 0]>>,
                  delivery |-> 0, service |-> 0, discount |-> 0]
  /\ settings = [dailyBudget |-> Num(DefaultBudget)]
  /\ returned = FALSE
  /\ result = NoResult
  /\ alternativeReturned = FALSE
  /\ alternativeResults = <<>>

(* the forms and the background script after installation *)
SettingsIdle ==
  /\ budgetField = <<"1","4">>
  /\ tikkieField = EmptyString
  /\ popupError = ""
  /\ storage = DEFAULT_SETTINGS
  /\ updateSent = <<>>
  /\ orderRequest = [people |-> <<>>, delivery |-> 0, service |-> 0, discount |-> 0]
  /\ orderResponse = NoOrderResponse
  /\ lastHandler = "none"
  /\ lastOutcome = "none"
  /\ handlerRuns = 0

(* the content script as constructed, before initialize() *)
ContentIdle ==
  /\ page = NotAnOrderPage
  /\ pageChanges = 0
  /\ currentSettings = [dailyBudget |-> Num(DefaultBudget)]
  /\ calculationResults = <<>>
  /\ isCalculating = FALSE
  /\ modal = "none"
  /\ autoTimer = FALSE
  /\ settingsRequested = FALSE
  /\ settingsAnswer = <<>>
  /\ notifications = <<>>
  /\ triggerResponse = <<>>
  /\ loggedError = ""

(* the background script before any UPDATE_SETTINGS or GET_SETTINGS *)
BackgroundIdle ==
  /\ backgroundScript = "part_002"
  /\ securityManager = "fallback"
  /\ extensionContext = "valid"
  /\ now = 0
  /\ updateRequest = [dailyBudget |-> Undefined, tikkieLink |-> EmptyString]
  /\ updateResponse = [success |-> FALSE, error |-> <<"none">>]
  /\ getResponse = [success |-> FALSE, settings |-> [dailyBudget |-> Undefined,
                                                   tikkieLink |-> EmptyString]]
  /\ getTime = 0
  /\ attempts = <<>>
  /\ secondResponse = <<>>
  /\ lastRequest = "none"
  /\ requests = 0

(***************************************************************************)
(* SpecCalc: one call of calculateDistribution on every input.             *)
(***************************************************************************)
InitCalc ==
  /\ orderData \in OrderDatas
  /\ settings \in [dailyBudget : Budgets]
  /\ returned = FALSE
  /\ result = NoResult
  /\ alternativeReturned = FALSE
  /\ alternativeResults = <<>>
  /\ SettingsIdle
  /\ ContentIdle
  /\ BackgroundIdle

CallCalculateDistribution ==
  /\ ~returned
  /\ \E tie \in Ties : result' = calculateDistribution(orderData, settings, tie)
  /\ returned' = TRUE
  /\ UNCHANGED <<orderData, settings, alternativeReturned, alternativeResults>>
  /\ UNCHANGED settingsVars
  /\ UNCHANGED contentVars
  /\ UNCHANGED backgroundVars

CallCalculateAlternativeDistribution ==
  /\ ~alternativeReturned
  /\ \E tie \in Ties :
       alternativeResults' = calculateAlternativeDistribution(orderData, settings, tie)
  /\ alternativeReturned' = TRUE
  /\ UNCHANGED <<orderData, settings, returned, result>>
  /\ UNCHANGED settingsVars
  /\ UNCHANGED contentVars
  /\ UNCHANGED backgroundVars

NextCalc == CallCalculateDistribution \/ CallCalculateAlternativeDistribution

SpecCalc == InitCalc /\ [][NextCalc]_vars

(***************************************************************************)
(* SpecSettings: the handlers that derive the budget from the dailyBudget  *)
(* input or setting, run on every content of the forms and of the storage. *)
(* An async handler is taken up to the message it sends; the answer of the *)
(* background script to GET_SETTINGS is the stored settings merged over    *)
(* DEFAULT_SETTINGS.                                                       *)
(***************************************************************************)
InitSettings ==
  /\ CalcIdle
  /\ ContentIdle
  /\ BackgroundIdle
  /\ budgetField \in { <<>>, <<"0">>, <<"1","4">>, <<"7",".","5">>, <<"-","5">> }
  /\ tikkieField \in { <<>>, TikkieUrl, <<" ","h","i"," ">> }
  /\ popupError = ""
  /\ storage \in [dailyBudget : StoredBudgets, tikkieLink : {EmptyString, TikkieUrl}]
  /\ updateSent = <<>>
  /\ orderRequest = [people |-> <<>>, delivery |-> 0, service |-> 0, discount |-> 0]
  /\ orderResponse = NoOrderResponse
  /\ lastHandler = "none"
  /\ lastOutcome = "none"
  /\ handlerRuns = 0

ran(handler, outcome) ==
  /\ handlerRuns < MaxHandlerRuns
  /\ handlerRuns' = handlerRuns + 1
  /\ lastHandler' = handler
  /\ lastOutcome' = outcome

(* the body of saveSettings of the popup on the current fields *)
saveSettingsFrom(budgetValue, tikkieText) ==
  LET tikkieValue == trim(tikkieText)
      error == popupTikkieError(tikkieValue)
  IN  /\ popupError' = error
      /\ updateSent' = IF error # "" THEN updateSent
                       ELSE <<[dailyBudget |-> popupDailyBudget(budgetValue),
                               tikkieLink |-> tikkieValue]>>

(* popup: click on Save *)
SaveSettings ==
  /\ ran("saveSettings",
         IF popupTikkieError(trim(tikkieField)) # "" THEN "rejected" ELSE "sent")
  /\ saveSettingsFrom(budgetField, tikkieField)
  /\ UNCHANGED <<budgetField, tikkieField, storage, orderRequest, orderResponse>>
  /\ UNCHANGED calcVars
  /\ UNCHANGED contentVars
  /\ UNCHANGED backgroundVars

(* popup: click on Reset *)
ResetSettings ==
  /\ ran("resetSettings", "sent")
  /\ budgetField' = numberToString(DefaultBudget)
  /\ tikkieField' = EmptyString
  /\ saveSettingsFrom(budgetField', tikkieField')
  /\ UNCHANGED <<storage, orderRequest, orderResponse>>
  /\ UNCHANGED calcVars
  /\ UNCHANGED contentVars
  /\ UNCHANGED backgroundVars

(* popup: loadSettings, with or without an answer to GET_SETTINGS *)
LoadSettings ==
  /\ \E outcome \in {"success", "error"} :
        /\ ran("loadSettings", outcome)
        /\ IF outcome = "success"
           THEN /\ budgetField' = popupBudgetField(storage.dailyBudget)
                /\ tikkieField' = storage.tikkieLink
           ELSE UNCHANGED <<budgetField, tikkieField>>
  /\ UNCHANGED <<popupError, storage, updateSent, orderRequest, orderResponse>>
  /\ UNCHANGED calcVars
  /\ UNCHANGED contentVars
  /\ UNCHANGED backgroundVars

(* debug popup: saveSettingsDebug writes the storage itself and then sends  *)
(* UPDATE_SETTINGS; a failure of the direct write is logged and ignored     *)
SaveSettingsDebug ==
  /\ LET debugSettings == [dailyBudget |-> debugDailyBudget(budgetField),
                           tikkieLink |-> trim(tikkieField)]
     IN  /\ \E outcome \in {"written", "notWritten"} :
               /\ ran("saveSettingsDebug", outcome)
               /\ storage' = IF outcome = "written" THEN debugSettings ELSE storage
         /\ updateSent' = <<debugSettings>>
  /\ UNCHANGED <<budgetField, tikkieField, popupError, orderRequest, orderResponse>>
  /\ UNCHANGED calcVars
  /\ UNCHANGED contentVars
  /\ UNCHANGED backgroundVars

(* debug popup: loadSettingsDebug, answered with success, with a failure,   *)
(* or not at all                                                            *)
LoadSettingsDebug ==
  /\ \E outcome \in {"success", "failure", "error"} :
        /\ ran("loadSettingsDebug", outcome)
        /\ CASE outcome = "success" ->
                  /\ budgetField' = debugBudgetField(storage.dailyBudget)
                  /\ tikkieField' = storage.tikkieLink
             [] outcome = "failure" ->
                  /\ budgetField' = numberToString(DefaultBudget)
                  /\ tikkieField' = EmptyString
             [] outcome = "error" -> UNCHANGED <<budgetField, tikkieField>>
  /\ UNCHANGED <<popupError, storage, updateSent, orderRequest, orderResponse>>
  /\ UNCHANGED calcVars
  /\ UNCHANGED contentVars
  /\ UNCHANGED backgroundVars

(* background: handleCalculateOrder; chrome.storage.sync.get(DEFAULT_SETTINGS) *)
(* returns the stored values, which installation has set for every key, or  *)
(* rejects                                                                  *)
HandleCalculateOrder ==
  /\ \E data \in OrderRequests, tie \in Ties, outcome \in {"success", "error"} :
        /\ ran("handleCalculateOrder", outcome)
        /\ orderRequest' = data
        /\ orderResponse' =
             IF outcome = "success"
             THEN [success |-> TRUE,
                   result |-> calculateOrderDistribution(data, storage, tie)]
             ELSE NoOrderResponse
  /\ UNCHANGED <<budgetField, tikkieField, popupError, storage, updateSent>>
  /\ UNCHANGED calcVars
  /\ UNCHANGED contentVars
  /\ UNCHANGED backgroundVars

NextSettings ==
  \/ SaveSettings
  \/ ResetSettings
  \/ LoadSettings
  \/ SaveSettingsDebug
  \/ LoadSettingsDebug
  \/ HandleCalculateOrder

SpecSettings == InitSettings /\ [][NextSettings]_vars

(***************************************************************************)
(* SpecBackground: the background script answers UPDATE_SETTINGS and       *)
(* GET_SETTINGS messages while time passes.  Which version runs, whether    *)
(* importScripts('security.js') succeeded and what validateExtensionContext *)
(* finds are fixed when the script starts; part_003 does not start without  *)
(* security.js.  The storage is as onInstalled leaves it, or still without  *)
(* a dailyBudget when its write has not happened.  Each handler is taken at *)
(* the instant of its storage access and response.                         *)
(***************************************************************************)
InitBackground ==
  /\ CalcIdle
  /\ ContentIdle
  /\ budgetField = <<"1","4">>
  /\ tikkieField = EmptyString
  /\ popupError = ""
  /\ storage \in [dailyBudget : {Undefined, Num(DefaultBudget)}, tikkieLink : {EmptyString}]
  /\ updateSent = <<>>
  /\ orderRequest = [people |-> <<>>, delivery |-> 0, service |-> 0, discount |-> 0]
  /\ orderResponse = NoOrderResponse
  /\ lastHandler = "none"
  /\ lastOutcome = "none"
  /\ handlerRuns = 0
  /\ backgroundScript \in {"part_002", "part_003"}
  /\ securityManager \in IF backgroundScript = "part_002"
                         THEN {"SecurityManager", "fallback"}
                         ELSE {"SecurityManager"}
  /\ extensionContext \in {"valid", "invalid"}
  /\ now = 0
  /\ updateRequest = [dailyBudget |-> Undefined, tikkieLink |-> EmptyString]
  /\ updateResponse = [success |-> FALSE, error |-> <<"none">>]
  /\ getResponse = [success |-> FALSE, settings |-> [dailyBudget |-> Undefined,
                                                   tikkieLink |-> EmptyString]]
  /\ getTime = 0
  /\ attempts \in IF securityManager = "fallback" THEN {<<>>} ELSE {<<>>, NearLimit}
  /\ secondResponse = <<>>
  /\ lastRequest = "none"
  /\ requests = 0

settingsFormsUnchanged ==
  UNCHANGED <<budgetField, tikkieField, popupError, updateSent, orderRequest,
              orderResponse, lastHandler, lastOutcome, handlerRuns>>

received(type) ==
  /\ requests < MaxRequests
  /\ requests' = requests + 1
  /\ lastRequest' = type

(* handleUpdateSettings of the version that runs, for a message             *)
(* UPDATE_SETTINGS.  checkRateLimit passes or throws with the attempts of   *)
(* the last minute; part_003 reaches it only in a valid context.  The write *)
(* to the storage may be rejected.  After the response with success,        *)
(* chrome.tabs.query resolves or rejects; a rejection is caught by the      *)
(* outer catch block, which calls sendResponse again.                       *)
updateSettingsHandled(newSettings, written) ==
  /\ received("UPDATE_SETTINGS")
  /\ \E limit \in {settingsUpdateLimit(securityManager, attempts, now)} :
      \E outcome \in
         {IF backgroundScript = "part_002"
          THEN handleUpdateSettings(storage, newSettings, securityManager, written)
          ELSE handleUpdateSettingsEncrypting(storage, newSettings, extensionContext,
                                              limit.thrown, now, written)} :
      /\ updateRequest' = newSettings
      /\ updateResponse' = outcome.response
      /\ storage' = outcome.storage
      /\ attempts' = IF backgroundScript = "part_003" /\ extensionContext # "valid"
                     THEN attempts ELSE limit.attempts
      /\ secondResponse' \in IF outcome.response.success
                              THEN {<<>>, <<Failure(<<"rejected">>)>>} ELSE {<<>>}
      /\ UNCHANGED <<backgroundScript, securityManager, extensionContext, now,
                     getResponse, getTime>>
      /\ settingsFormsUnchanged
      /\ UNCHANGED calcVars

(* a message UPDATE_SETTINGS while no tab with a content script is open *)
HandleUpdateSettings ==
  /\ \E newSettings \in UpdateRequests, written \in BOOLEAN :
        updateSettingsHandled(newSettings, written)
  /\ UNCHANGED contentVars

(* handleGetSettings for a message GET_SETTINGS: the read of the storage    *)
(* may be rejected                                                         *)
getSettingsHandled ==
  /\ received("GET_SETTINGS")
  /\ \E read \in BOOLEAN :
        getResponse' = handleGetSettings(storage, securityManager, extensionContext, now, read)
  /\ getTime' = now
  /\ UNCHANGED <<backgroundScript, securityManager, extensionContext, now, updateRequest,
                 updateResponse, attempts, secondResponse, storage>>
  /\ settingsFormsUnchanged
  /\ UNCHANGED calcVars

(* a message GET_SETTINGS of the popup *)
HandleGetSettings ==
  /\ getSettingsHandled
  /\ UNCHANGED contentVars

(* a millisecond passes *)
TimePasses ==
  /\ now < MaxTime
  /\ now' = now + 1
  /\ UNCHANGED <<backgroundScript, securityManager, extensionContext, updateRequest,
                 updateResponse, getResponse, getTime, attempts, secondResponse,
                 lastRequest, requests, storage>>
  /\ settingsFormsUnchanged
  /\ UNCHANGED calcVars
  /\ UNCHANGED contentVars

NextBackground == HandleUpdateSettings \/ HandleGetSettings \/ TimePasses

SpecBackground == InitBackground /\ [][NextBackground]_vars

(***************************************************************************)
(* Spec: the content script.  JavaScript runs a handler to completion, and *)
(* calculateAndDisplay contains no await, so each request of a calculation *)
(* is one step.  Of the settings the content script keeps, only            *)
(* dailyBudget is read.                                                    *)
(***************************************************************************)
Init ==
  /\ CalcIdle
  /\ SettingsIdle
  /\ BackgroundIdle
  /\ page \in Pages
  /\ pageChanges = 0
  /\ currentSettings = [dailyBudget |-> Num(DefaultBudget)]
  /\ calculationResults = <<>>
  /\ isCalculating = FALSE
  /\ modal = "none"
  /\ autoTimer \in BOOLEAN       \* initialize(): scheduled now or on DOMContentLoaded
  /\ settingsRequested = TRUE    \* initialize(): loadSettings()
  /\ settingsAnswer = <<>>
  /\ notifications = <<>>
  /\ triggerResponse = <<>>
  /\ loggedError = ""

(* the catch block without the finally block: the flag stays set *)
calculationFailed_noFinally(error, fromPopup) ==
  [thrown |-> IF fromPopup THEN error ELSE "",
   calculationResults |-> calculationResults,
   isCalculating |-> TRUE,
   modal |-> IF fromPopup THEN "loading" ELSE "error",
   loggedError |-> error]

(* the catch and finally blocks of calculateAndDisplay *)
calculationFailed(error, fromPopup) ==
  [thrown |-> IF fromPopup THEN error ELSE "",
   calculationResults |-> calculationResults,
   isCalculating |-> FALSE,
   modal |-> IF fromPopup THEN "loading" ELSE "error",
   loggedError |-> error]

(* the try block with a flag that is reset only after an error *)
calculateParsed_noFinally(parsed, fromPopup, tie) ==
  IF parsed.error # "" THEN calculationFailed(parsed.error, fromPopup)
  ELSE IF Len(parsed.orderData.people) = 0
       THEN calculationFailed(
              "No order data found on this page. Make sure you are on an order confirmation or tracking page.",
              fromPopup)
  ELSE [thrown |-> "",
        calculationResults |->
          <<calculateDistribution(parsed.orderData, currentSettings, tie)>>,
        isCalculating |-> TRUE,
        modal |-> "results",
        loggedError |-> loggedError]

(* the try block of calculateAndDisplay from the outcome of parseOrderData, *)
(* with the finally block                                                   *)
calculateParsed(parsed, fromPopup, tie) ==
  IF parsed.error # "" THEN calculationFailed(parsed.error, fromPopup)
  ELSE IF Len(parsed.orderData.people) = 0
       THEN calculationFailed(
              "No order data found on this page. Make sure you are on an order confirmation or tracking page.",
              fromPopup)
  ELSE [thrown |-> "",
        calculationResults |->
          <<calculateDistribution(parsed.orderData, currentSettings, tie)>>,
        isCalculating |-> FALSE,
        modal |-> "results",
        loggedError |-> loggedError]

AlreadyInProgress == "Calculation already in progress"

(* calculateAndDisplay(fromPopup): what it throws ("" when it returns) and  *)
(* what it leaves in the state                                              *)
calculateAndDisplay(fromPopup, tie) ==
  IF isCalculating
  THEN [thrown |-> AlreadyInProgress, calculationResults |-> calculationResults,
        isCalculating |-> isCalculating, modal |-> modal, loggedError |-> loggedError]
  ELSE calculateParsed(parseOrderData(page), fromPopup, tie)

(* the state after a call of calculateAndDisplay *)
afterCalculation(run) ==
  /\ calculationResults' = run.calculationResults
  /\ isCalculating' = run.isCalculating
  /\ modal' = run.modal
  /\ loggedError' = run.loggedError

(* handleTriggerCalculation: the state and the response after the call *)
respondedTo(run) ==
  /\ afterCalculation(run)
  /\ triggerResponse' = <<[success |-> run.thrown = "", error |-> run.thrown]>>

(* loadSettings after the await: the settings of a response with success    *)
(* are merged into currentSettings                                          *)
settingsLoaded(response) ==
  /\ settingsRequested
  /\ settingsRequested' = FALSE
  /\ currentSettings' = IF response.success
                        THEN [currentSettings EXCEPT
                                !.dailyBudget = response.settings.dailyBudget]
                        ELSE currentSettings
  /\ UNCHANGED <<page, pageChanges, calculationResults, isCalculating, modal, autoTimer,
                 triggerResponse, loggedError>>

(* onMessage SETTINGS_UPDATED: message.settings, with a dailyBudget or       *)
(* without one, is merged into currentSettings                              *)
settingsMerged(update) ==
  /\ currentSettings' = IF update = <<>> THEN currentSettings
                        ELSE [currentSettings EXCEPT !.dailyBudget = update[1]]
  /\ UNCHANGED <<page, pageChanges, calculationResults, isCalculating, modal, autoTimer,
                 settingsRequested, triggerResponse, loggedError>>

(* loadSettings: some answer to GET_SETTINGS arrives, or the request fails *)
LoadSettingsAnswered ==
  /\ \E response \in {[success |-> FALSE, settings |-> NoSettings]}
                      \cup {[success |-> TRUE,
                             settings |-> [dailyBudget |-> b, tikkieLink |-> <<>>]] :
                              b \in StoredBudgets} :
        settingsLoaded(response)
  /\ UNCHANGED <<settingsAnswer, notifications>>
  /\ UNCHANGED <<calcVars, settingsVars, backgroundVars>>

(* some message SETTINGS_UPDATED arrives *)
SettingsUpdated ==
  /\ \E update \in {<<>>} \cup {<<b>> : b \in StoredBudgets} : settingsMerged(update)
  /\ UNCHANGED <<settingsAnswer, notifications>>
  /\ UNCHANGED <<calcVars, settingsVars, backgroundVars>>

(* onMessage TRIGGER_CALCULATION: handleTriggerCalculation *)
TriggerCalculation ==
  /\ \E tie \in Ties : respondedTo(calculateAndDisplay(TRUE, tie))
  /\ UNCHANGED <<page, pageChanges, currentSettings, autoTimer, settingsRequested,
                 settingsAnswer, notifications>>
  /\ UNCHANGED <<calcVars, settingsVars, backgroundVars>>

(* the timer of scheduleAutoCalculation fires *)
AutoCalculation ==
  /\ autoTimer
  /\ autoTimer' = FALSE
  /\ IF ~isCalculating
     THEN \E tie \in Ties : afterCalculation(calculateAndDisplay(FALSE, tie))
     ELSE UNCHANGED <<calculationResults, isCalculating, modal, loggedError>>
  /\ UNCHANGED <<page, pageChanges, currentSettings, settingsRequested,
                 settingsAnswer, notifications, triggerResponse>>
  /\ UNCHANGED <<calcVars, settingsVars, backgroundVars>>

(* click on Recalculate in the results modal *)
Recalculate ==
  /\ modal = "results"
  /\ \E tie \in Ties : afterCalculation(calculateAndDisplay(FALSE, tie))
  /\ UNCHANGED <<page, pageChanges, currentSettings, autoTimer, settingsRequested,
                 settingsAnswer, notifications, triggerResponse>>
  /\ UNCHANGED <<calcVars, settingsVars, backgroundVars>>

(* the close button, a click on the backdrop, or Escape *)
CloseModal ==
  /\ modal \in {"results", "error"}
  /\ modal' = "none"
  /\ UNCHANGED <<page, pageChanges, currentSettings, calculationResults, isCalculating, autoTimer,
                 settingsRequested,
                 settingsAnswer, notifications, triggerResponse, loggedError>>
  /\ UNCHANGED <<calcVars, settingsVars, backgroundVars>>

(* the site changes what the page shows *)
PageChanges ==
  /\ pageChanges < MaxPageChanges
  /\ pageChanges' = pageChanges + 1
  /\ \E p \in Pages : p # page /\ page' = p
  /\ UNCHANGED <<currentSettings, calculationResults, isCalculating, modal, autoTimer,
                 settingsRequested,
                 settingsAnswer, notifications, triggerResponse, loggedError>>
  /\ UNCHANGED <<calcVars, settingsVars, backgroundVars>>

Next ==
  \/ LoadSettingsAnswered
  \/ SettingsUpdated
  \/ TriggerCalculation
  \/ AutoCalculation
  \/ Recalculate
  \/ CloseModal
  \/ PageChanges

Spec == Init /\ [][Next]_vars

(***************************************************************************)
(* SpecPropagation: the background script of part_002 and one open tab of  *)
(* www.thuisbezorgd.nl with the content script.  The messages between     *)
(* them are on their way for any time: the response to the GET_SETTINGS of *)
(* loadSettings, and the SETTINGS_UPDATED notifications, which arrive in   *)
(* the order in which they were sent.                                      *)
(***************************************************************************)
InitPropagation ==
  /\ CalcIdle
  /\ budgetField = <<"1","4">>
  /\ tikkieField = EmptyString
  /\ popupError = ""
  /\ storage \in [dailyBudget : {Num(DefaultBudget), Num(750)}, tikkieLink : {EmptyString}]
  /\ updateSent = <<>>
  /\ orderRequest = [people |-> <<>>, delivery |-> 0, service |-> 0, discount |-> 0]
  /\ orderResponse = NoOrderResponse
  /\ lastHandler = "none"
  /\ lastOutcome = "none"
  /\ handlerRuns = 0
  /\ backgroundScript = "part_002"
  /\ securityManager \in {"SecurityManager", "fallback"}
  /\ extensionContext \in {"valid", "invalid"}
  /\ now = 0
  /\ updateRequest = [dailyBudget |-> Undefined, tikkieLink |-> EmptyString]
  /\ updateResponse = [success |-> FALSE, error |-> <<"none">>]
  /\ getResponse = [success |-> FALSE, settings |-> [dailyBudget |-> Undefined,
                                                   tikkieLink |-> EmptyString]]
  /\ getTime = 0
  /\ attempts = <<>>
  /\ secondResponse = <<>>
  /\ lastRequest = "none"
  /\ requests = 0
  /\ page \in {NotAnOrderPage,
                StructuredPage(<<[name |-> Bob, amount |-> Num(500)],
                                 [name |-> You, amount |-> Num(900)]>>, 101, 50, 0)}
  /\ pageChanges = 0
  /\ currentSettings = [dailyBudget |-> Num(DefaultBudget)]
  /\ calculationResults = <<>>
  /\ isCalculating = FALSE
  /\ modal = "none"
  /\ autoTimer = TRUE
  /\ settingsRequested = TRUE
  /\ settingsAnswer = <<>>
  /\ notifications = <<>>
  /\ triggerResponse = <<>>
  /\ loggedError = ""

(* the background script handles the GET_SETTINGS of loadSettings *)
LoadSettingsHandled ==
  /\ settingsRequested
  /\ settingsAnswer = <<>>
  /\ getSettingsHandled
  /\ settingsAnswer' = <<getResponse'>>
  /\ UNCHANGED <<page, pageChanges, currentSettings, calculationResults, isCalculating, modal,
                 autoTimer, settingsRequested, notifications, triggerResponse, loggedError>>

(* the response reaches loadSettings *)
LoadSettingsReturns ==
  /\ settingsAnswer # <<>>
  /\ settingsLoaded(settingsAnswer[1])
  /\ settingsAnswer' = <<>>
  /\ UNCHANGED notifications
  /\ UNCHANGED <<calcVars, settingsVars, backgroundVars>>

(* a message UPDATE_SETTINGS while the tab is open: after the response with *)
(* success, and unless chrome.tabs.query rejects, SETTINGS_UPDATED with the *)
(* settings stored is sent to the tab                                       *)
UpdateSettingsNotified ==
  /\ \E newSettings \in {r \in UpdateRequests : r.tikkieLink \in {EmptyString, TikkieUrl}},
        written \in BOOLEAN :
        updateSettingsHandled(newSettings, written)
  /\ notifications' = IF updateResponse'.success /\ secondResponse' = <<>>
                      THEN Append(notifications, <<storage'.dailyBudget>>)
                      ELSE notifications
  /\ UNCHANGED <<page, pageChanges, currentSettings, calculationResults, isCalculating, modal,
                 autoTimer, settingsRequested, settingsAnswer, triggerResponse, loggedError>>

(* the oldest SETTINGS_UPDATED on its way reaches the content script *)
SettingsUpdatedArrives ==
  /\ notifications # <<>>
  /\ settingsMerged(Head(notifications))
  /\ notifications' = Tail(notifications)
  /\ UNCHANGED settingsAnswer
  /\ UNCHANGED <<calcVars, settingsVars, backgroundVars>>

NextPropagation ==
  \/ LoadSettingsHandled
  \/ LoadSettingsReturns
  \/ UpdateSettingsNotified
  \/ SettingsUpdatedArrives
  \/ TriggerCalculation
  \/ AutoCalculation

SpecPropagation == InitPropagation /\ [][NextPropagation]_vars

(***************************************************************************)
(* Properties of the calculator.                                           *)
(***************************************************************************)
sumFinalPayment(r) == SumSeq([i \in 1..Len(r.results) |-> r.results[i].finalPayment])
sumBudgetHelpReceived(r) ==
  SumSeq([i \in 1..Len(r.results) |-> r.results[i].budgetHelpReceived])

(* C1: the payments of a result add up to no more than totalOverBudget and  *)
(* the help received adds up to no more than totalExtraBudget.              *)
C1_Conservation ==
  returned =>
    /\ sumFinalPayment(result) * Scale <= result.breakdown.totalOverBudget
    /\ sumBudgetHelpReceived(result) * Scale <= result.breakdown.totalExtraBudget

(* the cent values nearest to num/den sub-cent units *)
nearestCents(num, den) == {toFixed2(num, den, tie) : tie \in Ties}

(* the section 4.1 reference, from the inputs alone, in sub-cent units;     *)
(* help and payment as fractions over den                                   *)
reference(od, budgetCents) ==
  LET n == Len(od.people)
      budget == budgetCents * Scale
      shared == ((od.delivery + od.service + od.discount) * Scale) \div n
      totalCost == [i \in 1..n |-> od.people[i].amount * Scale + shared]
      over == [i \in 1..n |-> Max(0, totalCost[i] - budget)]
      extra == [i \in 1..n |-> Max(0, budget - totalCost[i])]
      totalOver == SumSeq(over)
      totalExtra == SumSeq(extra)
      den == IF totalOver > 0 THEN totalOver ELSE 1
      help == [i \in 1..n |-> IF over[i] > 0
                              THEN Min(over[i] * den, totalExtra * over[i])
                              ELSE 0]
  IN  [totalCost |-> totalCost,
       budgetUsage |-> [i \in 1..n |-> Min(totalCost[i], budget)],
       extraBudget |-> extra,
       overBudget |-> over,
       den |-> den,
       budgetHelpReceived |-> help,
       finalPayment |-> [i \in 1..n |-> IF over[i] > 0
                                        THEN Max(0, over[i] * den - help[i])
                                        ELSE 0]]

usedBudget == IF settings.dailyBudget.t = "number" THEN settings.dailyBudget.v ELSE DefaultBudget

(* C3: every figure of every participant is the section 4.1 reference value *)
(* (to the cent), and no reported help exceeds the participant's shortfall  *)
(* or the pool.                                                             *)
C3_MatchesReference ==
  returned =>
    LET ref == reference(orderData, usedBudget)
    IN  \A i \in 1..Len(result.results) :
          LET p == result.results[i]
          IN  /\ p.totalCost \in nearestCents(ref.totalCost[i], 1)
              /\ p.budgetUsage \in nearestCents(ref.budgetUsage[i], 1)
              /\ p.extraBudget \in nearestCents(ref.extraBudget[i], 1)
              /\ p.overBudget \in nearestCents(ref.overBudget[i], 1)
              /\ p.budgetHelpReceived \in nearestCents(ref.budgetHelpReceived[i], ref.den)
              /\ p.finalPayment \in nearestCents(ref.finalPayment[i], ref.den)

(* the inputs of the call, in cents *)
participantCount == Len(orderData.people)
orderSubtotalCents == SumSeq([i \in 1..participantCount |-> orderData.people[i].amount])
sharedCents == orderData.delivery + orderData.service + orderData.discount
grandTotalCents == orderSubtotalCents + sharedCents

(* C4: withinBudget is true exactly when the grand total of the order is at *)
(* most the budget times the number of participants.                        *)
C4_WithinBudgetIff ==
  returned =>
    (result.withinBudget <=> grandTotalCents <= usedBudget * participantCount)

W4_ExactlyOnBudget ==
  /\ returned
  /\ result.withinBudget
  /\ participantCount >= 2
  /\ grandTotalCents > 0
  /\ grandTotalCents = usedBudget * participantCount

(* C5: no participant of any result has a negative finalPayment or a        *)
(* negative budgetHelpReceived.                                             *)
C5_NoNegativeResults ==
  returned =>
    \A i \in 1..Len(result.results) :
       /\ result.results[i].finalPayment >= 0
       /\ result.results[i].budgetHelpReceived >= 0

W5_PoolExceedsShortfall ==
  /\ returned
  /\ orderData.discount < 0
  /\ result.breakdown.totalOverBudget > 0
  /\ result.breakdown.totalExtraBudget > result.breakdown.totalOverBudget
  /\ \E i \in 1..Len(result.results) : result.results[i].budgetHelpReceived > 0

allZero ==
  /\ \A i \in 1..participantCount : orderData.people[i].amount = 0
  /\ orderData.delivery = 0 /\ orderData.service = 0 /\ orderData.discount = 0

(* C6 as stated: with budget 0 and order data that is not all zero, the     *)
(* order is not within budget and every participant has overBudget equal to *)
(* totalCost and extraBudget 0.                                             *)
C6_ZeroBudgetAnyDiscount ==
  (returned /\ settings.dailyBudget = Num(0) /\ ~allZero) =>
    /\ ~result.withinBudget
    /\ \A i \in 1..Len(result.results) :
          /\ result.results[i].overBudget = result.results[i].totalCost
          /\ result.results[i].extraBudget = 0

(* C6 amended: with budget 0 the order is not within budget exactly when    *)
(* its grand total is positive; a participant whose total cost is not       *)
(* negative has overBudget equal to totalCost and extraBudget 0, and one    *)
(* whose total cost is negative has overBudget 0 and extraBudget equal to   *)
(* minus the total cost.                                                    *)
C6_ZeroBudget ==
  (returned /\ settings.dailyBudget = Num(0)) =>
    /\ ~result.withinBudget <=> grandTotalCents > 0
    /\ \A i \in 1..Len(result.results) :
          LET p == result.results[i]
          IN  IF orderData.people[i].amount * participantCount + sharedCents >= 0
              THEN p.overBudget = p.totalCost /\ p.extraBudget = 0
              ELSE p.overBudget = 0 /\ p.extraBudget = 0 - p.totalCost

W6_ZeroBudgetOrder ==
  /\ returned
  /\ settings.dailyBudget = Num(0)
  /\ ~result.withinBudget
  /\ participantCount = 3
  /\ \A i \in 1..participantCount : result.results[i].overBudget > 0

(* C7: the budget used is 14 when dailyBudget is undefined or null and is   *)
(* the given value, 0 included, otherwise.                                  *)
C7_BudgetDefaulting ==
  returned =>
    /\ settings.dailyBudget \in {Undefined, Null}
         => result.breakdown.totalBudget = 1400 * Scale * participantCount
    /\ settings.dailyBudget.t = "number"
         => result.breakdown.totalBudget = settings.dailyBudget.v * Scale * participantCount

W7_ZeroBudgetUsed ==
  /\ returned
  /\ settings.dailyBudget = Num(0)
  /\ result.breakdown.totalBudget = 0
  /\ grandTotalCents > 0

(* the names of Names that contain you, yu, me or myself once lower-cased *)
CreatorNames == {You, Meg}

isFirstCreator(i) ==
  /\ orderData.people[i].name \in CreatorNames
  /\ \A j \in 1..(i - 1) : orderData.people[j].name \notin CreatorNames

(* C9: orderCreator is the first participant, in enumeration order, whose   *)
(* lower-cased name contains a creator pattern, and null when there is      *)
(* none; that participant and no other has isOrderCreator set.              *)
C9_OrderCreator ==
  returned =>
    /\ (\A i \in 1..participantCount : orderData.people[i].name \notin CreatorNames)
         => result.orderCreator = <<>>
    /\ \A i \in 1..participantCount :
          /\ isFirstCreator(i) => result.orderCreator = <<orderData.people[i].name>>
          /\ result.results[i].isOrderCreator <=> isFirstCreator(i)
    /\ Cardinality({i \in 1..participantCount : result.results[i].isOrderCreator}) <= 1

W9_YouLastAmongThree ==
  /\ returned
  /\ participantCount = 3
  /\ {orderData.people[i].name : i \in 1..3} = {You, Bob, Carol}
  /\ orderData.people[3].name = You
  /\ result.orderCreator = <<You>>
  /\ result.results[3].isOrderCreator

isFinite(value) == value.t = "number"

(* C11: calculateDistribution on an OrderData without participants yields a *)
(* failure and not a DistributionResult, and no field of what it yields is  *)
(* NaN or an infinity.                                                      *)
C11_EmptyInputFails ==
  (returned /\ participantCount = 0) =>
    /\ result = NoResult
    /\ isFinite(result.breakdown.sharedCostsPerPerson)

(* C22: in every result of calculateDistribution a participant's status is    *)
(* 'pays' exactly when the reported finalPayment is positive, 'covered'      *)
(* exactly when overBudget is positive and the reported finalPayment is 0,   *)
(* 'helps_others' exactly when overBudget is 0 and extraBudget is positive,  *)
(* and 'exact' exactly when both are 0.                                      *)
C22_StatusMatchesReportedFigures ==
  returned =>
    \A i \in 1..Len(result.results) :
      LET r == result.results[i]
      IN  /\ r.status = "pays" <=> r.finalPayment > 0
          /\ r.status = "covered" <=> (r.overBudget > 0 /\ r.finalPayment = 0)
          /\ r.status = "helps_others" <=> (r.overBudget = 0 /\ r.extraBudget > 0)
          /\ r.status = "exact" <=> (r.overBudget = 0 /\ r.extraBudget = 0)

(* C25: the redistribution pass works on the unrounded Step 1 values: a     *)
(* participant is taken as over budget exactly when the unrounded overBudget *)
(* is positive, and the reported budgetHelpReceived and finalPayment are the *)
(* values computed from the unrounded figures, rounded once.                *)
C25_RedistributionFromUnrounded ==
  (returned /\ participantCount >= 1) =>
    LET ref == reference(orderData, usedBudget)
    IN  \A i \in 1..Len(result.results) :
          LET p == result.results[i]
          IN  /\ p.status \in {"pays", "covered"} <=> ref.overBudget[i] > 0
              /\ p.budgetHelpReceived \in nearestCents(ref.budgetHelpReceived[i], ref.den)
              /\ p.finalPayment \in nearestCents(ref.finalPayment[i], ref.den)

(* the excess of the order over the pooled budget, in cents *)
excessCents == Max(0, grandTotalCents - usedBudget * participantCount)

(* C27: for at least one participant the payments add up to the excess      *)
(* max(0, grandTotal - budget * participantCount), which is                 *)
(* max(0, totalOverBudget - totalExtraBudget), to a cent per participant;   *)
(* and withinBudget is true exactly when every finalPayment is 0.           *)
C27_PaymentsEqualExcess ==
  (returned /\ participantCount >= 1) =>
    /\ Abs(sumFinalPayment(result) - excessCents) <= participantCount
    /\ excessCents * Scale
         = Max(0, result.breakdown.totalOverBudget - result.breakdown.totalExtraBudget)
    /\ result.withinBudget <=>
         \A i \in 1..Len(result.results) : result.results[i].finalPayment = 0

(***************************************************************************)
(* Properties of calculateAlternativeDistribution.                         *)
(***************************************************************************)
orderSubtotalOf(od) == SumSeq([i \in 1..Len(od.people) |-> od.people[i].amount])
grandTotalOf(od) == orderSubtotalOf(od) + od.delivery + od.service + od.discount
totalBudgetOf(od, s) == budgetOf(s) * Len(od.people)
amountsOf(results) == SumSeq([i \in 1..Len(results) |-> results[i].amount])

(* the amount under a participant's name is within a cent of the excess     *)
(* times the participant's share of the order subtotal                     *)
proportionalShares(od, excess, results) ==
  \A i \in 1..Len(od.people) :
    orderSubtotalOf(od) > 0 =>
      Abs(results[i].amount * orderSubtotalOf(od) - excess * od.people[i].amount)
        <= orderSubtotalOf(od)

(* C14: once calculateAlternativeDistribution has returned: when the grand  *)
(* total is at most budget * participantCount every participant is assigned *)
(* 0; when it exceeds it, every participant's amount is the excess times the *)
(* participant's share of the order (to the cent) and the assigned amounts, *)
(* the order creator's remainder included, add up to the excess.            *)
C14_AlternativeSplitsExcess ==
  alternativeReturned =>
    IF grandTotalOf(orderData) <= totalBudgetOf(orderData, settings)
    THEN /\ Len(alternativeResults) = Len(orderData.people)
         /\ \A i \in 1..Len(alternativeResults) : alternativeResults[i].amount = 0
    ELSE /\ amountsOf(alternativeResults)
              = grandTotalOf(orderData) - totalBudgetOf(orderData, settings)
         /\ proportionalShares(orderData,
                               grandTotalOf(orderData) - totalBudgetOf(orderData, settings),
                               alternativeResults)

(***************************************************************************)
(* Properties of the background script's settings handlers.                *)
(***************************************************************************)
(* the last UPDATE_SETTINGS was answered with success and a GET_SETTINGS    *)
(* that followed it was answered with success                              *)
savedThenLoaded ==
  /\ updateResponse.success
  /\ lastRequest = "GET_SETTINGS"
  /\ getResponse.success

(* C15: once an UPDATE_SETTINGS with dailyBudget = b is answered with       *)
(* success the storage holds b under dailyBudget, and a GET_SETTINGS that   *)
(* follows returns settings.dailyBudget = b as a number, also for b = 0.    *)
C15_DailyBudgetRoundTrip ==
  /\ updateResponse.success => storage.dailyBudget = updateRequest.dailyBudget
  /\ savedThenLoaded =>
       /\ getResponse.settings.dailyBudget.t = "number"
       /\ getResponse.settings.dailyBudget = updateRequest.dailyBudget

W15_ZeroBudgetReturned ==
  /\ savedThenLoaded
  /\ updateRequest.dailyBudget = Num(0)
  /\ storage.dailyBudget = Num(0)
  /\ getResponse.settings.dailyBudget = Num(0)

(* the failures that come from outside the handler: a rejected storage      *)
(* write, the rate limit, an invalid extension context                     *)
environmentFailure(response) ==
  /\ ~response.success
  /\ response.error \in { <<"Storage failed: ", "rejected">>, <<"rejected">>,
                          <<"Rate limit exceeded">>, <<"Invalid extension context">> }

(* the last message was an UPDATE_SETTINGS with this tikkieLink, and nothing *)
(* outside the handler failed                                              *)
updatedWith(tikkieLink) ==
  /\ lastRequest = "UPDATE_SETTINGS"
  /\ updateRequest.tikkieLink = tikkieLink
  /\ ~environmentFailure(updateResponse)

(* C16: an UPDATE_SETTINGS with an empty tikkieLink and a valid dailyBudget  *)
(* is answered with success, and the storage then holds that dailyBudget    *)
(* and tikkieLink = ''.                                                     *)
C16_EmptyLinkSaves ==
  updatedWith(EmptyString) =>
    /\ updateResponse.success
    /\ storage = [dailyBudget |-> updateRequest.dailyBudget, tikkieLink |-> EmptyString]

(* C17: an UPDATE_SETTINGS whose tikkieLink is a payment message around a   *)
(* Tikkie URL is answered with success, and a GET_SETTINGS that follows     *)
(* returns exactly the embedded URL as tikkieLink.                          *)
C17_UrlExtractedFromMessage ==
  /\ updatedWith(TikkieMessage) => updateResponse.success
  /\ (savedThenLoaded /\ updateRequest.tikkieLink = TikkieMessage) =>
       getResponse.settings.tikkieLink = TikkieUrl

(* C18: an UPDATE_SETTINGS whose tikkieLink is text without a Tikkie URL and *)
(* whose dailyBudget is valid is answered with success, and the storage     *)
(* then holds that dailyBudget and tikkieLink = ''.                         *)
C18_UnusableLinkKeepsBudget ==
  updatedWith(NoUrlText) =>
    /\ updateResponse.success
    /\ storage = [dailyBudget |-> updateRequest.dailyBudget, tikkieLink |-> EmptyString]

(* C19: once an UPDATE_SETTINGS with a valid direct URL is answered with    *)
(* success, a GET_SETTINGS that follows returns that URL as tikkieLink,     *)
(* whenever it runs and whether the link is stored encrypted or not.        *)
C19_TikkieLinkRoundTrip ==
  (savedThenLoaded /\ updateRequest.tikkieLink = TikkieUrl) =>
    getResponse.settings.tikkieLink = TikkieUrl

(* C20: the tikkieLink in the storage is the empty string or starts with    *)
(* 'encrypted:'; no UPDATE_SETTINGS writes a plaintext URL.                 *)
C20_LinkEncryptedAtRest ==
  storage.tikkieLink = EmptyString \/ startsWith(storage.tikkieLink, EncryptedPrefix)

(* the attempts recorded within the minute that ends now *)
recentAttempts == SelectSeq(attempts, LAMBDA t : now - t < 60000)

(* C26: an UPDATE_SETTINGS that arrives when ten accepted attempts lie      *)
(* within the preceding 60 seconds is not recorded as an attempt, is        *)
(* answered with a failure and leaves the storage unchanged, so that no     *)
(* more than ten updates are written in any window of 60 seconds.           *)
C26_UpdatesRateLimited ==
  [][(HandleUpdateSettings /\ Len(recentAttempts) >= 10)
       => /\ attempts' = attempts
          /\ ~updateResponse'.success
          /\ storage' = storage]_vars

(* C28: handleUpdateSettings answers every UPDATE_SETTINGS exactly once; a  *)
(* response with success is never followed by a second response for the    *)
(* same request when something after the write to the storage throws.       *)
C28_OneResponsePerUpdate ==
  lastRequest = "UPDATE_SETTINGS" => secondResponse = <<>>

(***************************************************************************)
(* Properties of the content script's runs of calculateAndDisplay.         *)
(***************************************************************************)
(* a step that runs calculateAndDisplay *)
CalculationRun == TriggerCalculation \/ AutoCalculation \/ Recalculate

(* the run reached calculateDistribution: only then are results displayed *)
calculatorReached == modal' = "results"

(* the run ended with an error and without calculateDistribution *)
endedWithError ==
  /\ modal' \in {"error", "loading"}
  /\ loggedError' \in {ParsingFailed, NoParticipantsDetected, PricesNotParsed,
                       TooManyParticipants, InvalidParticipantName,
                       UnusuallyHighAmount, InvalidFeeData}
  /\ calculationResults' = calculationResults

(* between 1 and 50 participants, each with a name and a numeric amount in  *)
(* [0, 1000]                                                                *)
validParticipants(people) ==
  /\ Len(people) \in 1..50
  /\ \A i \in 1..Len(people) :
        /\ people[i].name # <<>>
        /\ people[i].amount.t = "number"
        /\ people[i].amount.v >= 0
        /\ people[i].amount.v <= 100000

invalidFee(fee) == fee.t # "number" \/ fee.v < 0

(* C13: an OrderData whose delivery or service fee is negative or           *)
(* non-finite is rejected by validation: the run ends with an error and     *)
(* calculateDistribution does not run.                                      *)
C13_InvalidFeesRejected ==
  [][(CalculationRun /\ page.indicators
        /\ (invalidFee(parsedBy(page).delivery) \/ invalidFee(parsedBy(page).service)))
       => endedWithError]_vars

C24_ResultsDiscarded ==
  [][((CalculationRun /\ ~calculatorReached) \/ CloseModal)
       => calculationResults' = <<>>]_vars

(* C30: isCalculating is never observed as set: whenever a handler, a timer *)
(* or a click starts (TRIGGER_CALCULATION, the timer of                     *)
(* scheduleAutoCalculation, Recalculate) it is false, and no                *)
(* TRIGGER_CALCULATION is answered with 'Calculation already in progress'.  *)
C30_NeverObservedCalculating ==
  /\ ~isCalculating
  /\ \A i \in 1..Len(triggerResponse) : triggerResponse[i].error # AlreadyInProgress
  /\ loggedError # AlreadyInProgress

(* TRIGGER_CALCULATION was answered with an error and the timer has run *)
W30_HandlersHaveRun ==
  /\ triggerResponse # <<>> /\ ~triggerResponse[1].success
  /\ ~autoTimer
  /\ modal = "loading"

(* the dailyBudget in the storage, 14 when none is stored *)
storedBudget == storedOrDefault(storage.dailyBudget, DEFAULT_SETTINGS.dailyBudget)

(* the last UPDATE_SETTINGS was stored, its SETTINGS_UPDATED was sent, and  *)
(* every SETTINGS_UPDATED sent has reached the content script               *)
updateDelivered ==
  /\ updateResponse.success
  /\ secondResponse = <<>>
  /\ notifications = <<>>

(* C21: once an UPDATE_SETTINGS has been stored and its SETTINGS_UPDATED    *)
(* has reached the content script of the open tab, the settings are merged  *)
(* into currentSettings and the next calculation in that tab uses the new   *)
(* dailyBudget, without a page reload.                                      *)
C21_UpdateReachesNextCalculation ==
  [][(CalculationRun /\ calculatorReached /\ updateDelivered)
       => currentSettings.dailyBudget = storedBudget]_vars

(* C29: under every interleaving of the response to the GET_SETTINGS of     *)
(* loadSettings, the SETTINGS_UPDATED notifications, the timer of the       *)
(* auto-calculation and TRIGGER_CALCULATION, each calculation uses the      *)
(* dailyBudget stored last (14 if none).                                    *)
C29_CalculationsUseStoredBudget ==
  [][(CalculationRun /\ calculatorReached /\ notifications = <<>>)
       => currentSettings.dailyBudget = storedBudget]_vars

(***************************************************************************)
(* Properties of the places that derive the budget.                        *)
(***************************************************************************)
zeroEntered == parseFloat(budgetField) = Num(0)
zeroStored == storage.dailyBudget = Num(0)

(* C8: zero budget is honoured throughout the extension.  Where the budget  *)
(* is derived from the dailyBudget input or setting, a dailyBudget of 0 is  *)
(* kept as 0 and not replaced by the default 14: saveSettings and           *)
(* saveSettingsDebug submit 0 when 0 is entered (and saveSettingsDebug      *)
(* writes 0 to the storage), loadSettingsDebug shows 0 when 0 is stored,    *)
(* and calculateOrderDistribution computes with a budget of 0 when 0 is     *)
(* stored.                                                                  *)
C8_ZeroBudgetHonoured ==
  /\ (lastHandler = "saveSettings" /\ lastOutcome = "sent" /\ zeroEntered)
        => updateSent # <<>> /\ updateSent[1].dailyBudget = Num(0)
  /\ (lastHandler = "saveSettingsDebug" /\ zeroEntered)
        => /\ updateSent # <<>> /\ updateSent[1].dailyBudget = Num(0)
           /\ lastOutcome = "written" => storage.dailyBudget = Num(0)
  /\ (lastHandler = "loadSettingsDebug" /\ lastOutcome = "success" /\ zeroStored)
        => budgetField = <<"0">>
  /\ (lastHandler = "handleCalculateOrder" /\ lastOutcome = "success" /\ zeroStored)
        => orderResponse.result.breakdown.totalBudget = 0

====
